---- MODULE Spec2Model ----
(***************************************************************************)
(* PoseKit: the pose geometry utilities of apps/web/src/utils/poseUtils.ts *)
(* (mirror, scale, rotate, transform, similarity, nearest-neighbour        *)
(* search, variation generator, OpenPose interchange).                     *)
(*                                                                         *)
(* JavaScript numbers are IEEE-754 doubles.  They are modelled by a        *)
(* scaled-down binary floating-point format with the same rounding rule    *)
(* (round to nearest, ties to even), gradual underflow, NaN and the two    *)
(* infinities: a finite number is an integer count of units of             *)
(* 2^-FracBits that has at most Prec significant bits.  Negative zero is   *)
(* not distinguished from zero.                                            *)
(***************************************************************************)
EXTENDS Integers, Naturals, Sequences, FiniteSets, TLC

\* the utility call in progress: its name, its arguments and its outcome
VARIABLES op, args, result

\* the mounted React hook: its props and the state of the last render; the
\* state updates queued since that render; the browser's localStorage
VARIABLES hook, pending, localStorage

\* the locals of a running exportPosesWithProgress and what it has done
VARIABLE exportRun

vars == <<op, args, result, hook, pending, localStorage, exportRun>>

\* what a call of a pose utility leaves alone
browser == <<hook, pending, localStorage, exportRun>>

(***************************************************************************)
(* Numbers                                                                 *)
(***************************************************************************)
Prec == 8
FracBits == 8

One == 2^FracBits
Lim == 2^Prec

\* the three non-finite doubles, encoded outside the finite range
NaN == 2100000000
PInf == 2000000000
NInf == -2000000000

IsNum(a) == a # NaN /\ a # PInf /\ a # NInf

Abs(n) == IF n < 0 THEN -n ELSE n
Sgn(n) == IF n < 0 THEN -1 ELSE IF n > 0 THEN 1 ELSE 0

\* the integers of the model stay below 2^31
MaxExp == 31 - Prec

\* exponent of the unit in the last place of a non-negative integer q: the
\* least e that leaves q \div 2^e with at most Prec bits
ExpOf(q) ==
  IF q < Lim THEN 0
  ELSE CHOOSE e \in 1..MaxExp : q \div 2^e < Lim /\ q \div 2^(e - 1) >= Lim

\* number of trailing zero bits of n > 0
Tz(n) ==
  IF n % 2 = 1 THEN 0
  ELSE CHOOSE t \in 1..30 : n % 2^t = 0 /\ (n \div 2^t) % 2 = 1

\* num/(d/u) >= 0 rounded to a multiple of u, the unit in its last place:
\* to the nearest one, ties to the even multiple
RoundAt(num, d, u) ==
  (IF \/ 2 * (num % d) > d
      \/ (2 * (num % d) = d /\ (num \div d) % 2 = 1)
     THEN (num \div d) + 1 ELSE num \div d) * u

RoundWithUlp(num, den, u) == RoundAt(num, den * u, u)

\* num/den >= 0 rounded to the nearest representable number, ties to even
RoundPos(num, den) == RoundWithUlp(num, den, 2^ExpOf(num \div den))

\* num/den (den > 0) rounded to the nearest representable number
RoundQ(num, den) ==
  IF num < 0 THEN -RoundPos(-num, den) ELSE RoundPos(num, den)

\* the double nearest to the decimal literal n/d
Lit(n, d) == RoundQ(n * One, d)

Representable(a) == IsNum(a) /\ RoundQ(a, 1) = a

\* a + b
fadd(a, b) ==
  IF a = NaN \/ b = NaN THEN NaN
  ELSE IF a = PInf THEN (IF b = NInf THEN NaN ELSE PInf)
  ELSE IF a = NInf THEN (IF b = PInf THEN NaN ELSE NInf)
  ELSE IF b = PInf \/ b = NInf THEN b
  ELSE RoundQ(a + b, 1)

fneg(a) ==
  IF a = NaN THEN NaN
  ELSE IF a = PInf THEN NInf
  ELSE IF a = NInf THEN PInf
  ELSE -a

\* a - b
fsub(a, b) == fadd(a, fneg(b))

\* p * 2^s rounded, for an integer p and any integer s
RoundScaled(p, s) ==
  IF s >= 0 THEN RoundQ(p * 2^s, 1) ELSE RoundQ(p, 2^(-s))

\* a * b for finite non-zero a and b with ta and tb trailing zero bits
MulFinite(a, b, ta, tb) ==
  RoundScaled((a \div 2^ta) * (b \div 2^tb), ta + tb - FracBits)

\* a * b
fmul(a, b) ==
  IF a = NaN \/ b = NaN THEN NaN
  ELSE IF ~IsNum(a) \/ ~IsNum(b)
    THEN (IF a = 0 \/ b = 0 THEN NaN
          ELSE IF Sgn(a) * Sgn(b) > 0 THEN PInf ELSE NInf)
  ELSE IF a = 0 \/ b = 0 THEN 0
  ELSE Sgn(a) * Sgn(b) * MulFinite(Abs(a), Abs(b), Tz(Abs(a)), Tz(Abs(b)))

\* p * 2^s / q rounded, for integers p >= 0, q > 0 and any integer s
RoundRatio(p, q, s) ==
  IF s >= 0 THEN RoundQ(p * 2^s, q) ELSE RoundQ(p, q * 2^(-s))

\* a / b for finite a, b > 0 with ta and tb trailing zero bits
DivFinite(a, b, ta, tb) ==
  RoundRatio(a \div 2^ta, b \div 2^tb, ta + FracBits - tb)

\* a / b
fdiv(a, b) ==
  IF a = NaN \/ b = NaN THEN NaN
  ELSE IF ~IsNum(a)
    THEN (IF ~IsNum(b) THEN NaN
          ELSE IF (Sgn(a) > 0) = (b >= 0) THEN PInf ELSE NInf)
  ELSE IF ~IsNum(b) THEN 0
  ELSE IF b = 0
    THEN (IF a = 0 THEN NaN ELSE IF a > 0 THEN PInf ELSE NInf)
  ELSE IF a = 0 THEN 0
  ELSE Sgn(a) * Sgn(b) * DivFinite(Abs(a), Abs(b), Tz(Abs(a)), Tz(Abs(b)))

\* floor of the square root of n >= 0, given r = floor(sqrt(n \div 256)):
\* one of the sixteen integers from 16 * r
IsqrtStep(n, r) ==
  CHOOSE s \in (16 * r)..(16 * r + 15) : s * s <= n /\ (s + 1) * (s + 1) > n

\* floor of the square root of n >= 0
RECURSIVE Isqrt(_)
Isqrt(n) == IF n < 2 THEN n ELSE IsqrtStep(n, Isqrt(n \div 256))

\* sqrt(n) * 2^(h - Prec) rounded, given s = floor(sqrt(n)): the root lies
\* in [s, s + 1), strictly inside unless s * s = n
SqrtRound(n, s, h) ==
  IF h >= Prec
    THEN RoundQ((2 * s + (IF s * s = n THEN 0 ELSE 1)) * 2^(h - Prec), 2)
    ELSE RoundQ(2 * s + (IF s * s = n THEN 0 ELSE 1), 2^(Prec - h + 1))

\* sqrt(mm * 2^(2 * h)) rounded, for a significand mm
SqrtScaled(mm, h) ==
  SqrtRound(mm * 2^(2 * Prec), Isqrt(mm * 2^(2 * Prec)), h)

\* sqrt(m * 2^t) rounded, for an odd m
SqrtParts(m, t) ==
  IF t % 2 = 0 THEN SqrtScaled(m, t \div 2) ELSE SqrtScaled(2 * m, t \div 2)

\* sqrt(a) for finite a > 0 with ta trailing zero bits
SqrtFinite(a, ta) == SqrtParts(a \div 2^ta, ta + FracBits)

\* Math.sqrt(a), correctly rounded
fsqrt(a) ==
  IF a = NaN \/ a = NInf THEN NaN
  ELSE IF a = PInf THEN PInf
  ELSE IF a < 0 THEN NaN
  ELSE IF a = 0 THEN 0
  ELSE SqrtFinite(a, Tz(a))

\* a > b, a >= b (false when either side is NaN)
fgt(a, b) ==
  IF a = NaN \/ b = NaN THEN FALSE
  ELSE IF a = PInf THEN b # PInf
  ELSE IF a = NInf THEN FALSE
  ELSE IF b = PInf THEN FALSE
  ELSE IF b = NInf THEN TRUE
  ELSE a > b

fge(a, b) ==
  IF a = NaN \/ b = NaN THEN FALSE ELSE (a = b \/ fgt(a, b))

\* Math.max(a, b)
fmax(a, b) ==
  IF a = NaN \/ b = NaN THEN NaN
  ELSE IF fgt(b, a) THEN b ELSE a

\* a === b on numbers
feq(a, b) == a # NaN /\ b # NaN /\ a = b

(***************************************************************************)
(* Keypoint, PoseData                                        poseUtils.ts  *)
(***************************************************************************)
\* Object.keys(COCO_KEYPOINTS): the key at position k+1 has value k
COCO_KEYPOINTS ==
  << "NOSE", "LEFT_EYE", "RIGHT_EYE", "LEFT_EAR", "RIGHT_EAR",
     "LEFT_SHOULDER", "RIGHT_SHOULDER", "LEFT_ELBOW", "RIGHT_ELBOW",
     "LEFT_WRIST", "RIGHT_WRIST", "LEFT_HIP", "RIGHT_HIP",
     "LEFT_KNEE", "RIGHT_KNEE", "LEFT_ANKLE", "RIGHT_ANKLE" >>

\* MIRROR_MAPPING with one entry mistyped: RIGHT_EYE is sent to LEFT_EAR
MIRROR_MAPPING_Typo ==
  (1 :> 2) @@ (2 :> 3) @@ (3 :> 4) @@ (4 :> 3) @@
  (5 :> 6) @@ (6 :> 5) @@ (7 :> 8) @@ (8 :> 7) @@
  (9 :> 10) @@ (10 :> 9) @@ (11 :> 12) @@ (12 :> 11) @@
  (13 :> 14) @@ (14 :> 13) @@ (15 :> 16) @@ (16 :> 15)

\* Mirror mapping for left-right keypoints (0-based indices, as in the code)
MIRROR_MAPPING ==
  (1 :> 2) @@ (2 :> 1) @@ (3 :> 4) @@ (4 :> 3) @@
  (5 :> 6) @@ (6 :> 5) @@ (7 :> 8) @@ (8 :> 7) @@
  (9 :> 10) @@ (10 :> 9) @@ (11 :> 12) @@ (12 :> 11) @@
  (13 :> 14) @@ (14 :> 13) @@ (15 :> 16) @@ (16 :> 15)

\* outcome of a call: a returned value or a thrown TypeError
Ok(v) == [status |-> "ok", value |-> v]
Throw == [status |-> "TypeError", value |-> <<>>]

\* keypoints[index] of a JavaScript array (0-based) in a sequence (1-based)
At(keypoints, index) == keypoints[index + 1]

\* MirrorKeypoint that flips the keypoint in place, without taking the
\* partner's coordinates
MirrorKeypoint_NoSwap(poseData, index) ==
  LET keypoint == poseData.keypoints[index + 1]
  IN [keypoint EXCEPT !.x = fsub(poseData.width, keypoint.x)]

\* MirrorKeypoint that keeps the confidence of the slot, as it keeps its
\* label
MirrorKeypoint_OwnConfidence(poseData, index) ==
  LET keypoint == At(poseData.keypoints, index)
      sourceKeypoint ==
        IF index \in DOMAIN MIRROR_MAPPING
          THEN At(poseData.keypoints, MIRROR_MAPPING[index])
          ELSE keypoint
  IN [sourceKeypoint EXCEPT !.x = fsub(poseData.width, sourceKeypoint.x),
                            !.label = keypoint.label,
                            !.confidence = keypoint.confidence]

\* the callback of keypoints.map in mirrorPose
MirrorKeypoint(poseData, index) ==
  LET keypoint == At(poseData.keypoints, index)
      sourceKeypoint ==
        IF index \in DOMAIN MIRROR_MAPPING
          THEN At(poseData.keypoints, MIRROR_MAPPING[index])
          ELSE keypoint
  IN [sourceKeypoint EXCEPT !.x = fsub(poseData.width, sourceKeypoint.x),
                            !.label = keypoint.label]

\* keypoints[mirroredIndex] is undefined: reading .x of it throws
MirrorThrows(poseData) ==
  \E index \in 0..(Len(poseData.keypoints) - 1) :
     /\ index \in DOMAIN MIRROR_MAPPING
     /\ MIRROR_MAPPING[index] >= Len(poseData.keypoints)

mirrorPose(poseData) ==
  IF MirrorThrows(poseData) THEN Throw
  ELSE Ok([keypoints |-> [i \in 1..Len(poseData.keypoints) |->
                             MirrorKeypoint(poseData, i - 1)],
           skeleton |-> poseData.skeleton,
           width |-> poseData.width,
           height |-> poseData.height])

\* scalePose that returns the scaled keypoints in the frame of the source
scalePose_KeepsFrame(poseData, newWidth, newHeight) ==
  LET scaleX == fdiv(newWidth, poseData.width)
      scaleY == fdiv(newHeight, poseData.height)
  IN Ok([keypoints |-> [i \in 1..Len(poseData.keypoints) |->
                          [poseData.keypoints[i] EXCEPT
                             !.x = fmul(poseData.keypoints[i].x, scaleX),
                             !.y = fmul(poseData.keypoints[i].y, scaleY)]],
         skeleton |-> poseData.skeleton,
         width |-> poseData.width,
         height |-> poseData.height])

\* scalePose that multiplies x by the vertical factor and y by the horizontal
scalePose_SwappedFactors(poseData, newWidth, newHeight) ==
  LET scaleX == fdiv(newWidth, poseData.width)
      scaleY == fdiv(newHeight, poseData.height)
  IN Ok([keypoints |-> [i \in 1..Len(poseData.keypoints) |->
                          [poseData.keypoints[i] EXCEPT
                             !.x = fmul(poseData.keypoints[i].x, scaleY),
                             !.y = fmul(poseData.keypoints[i].y, scaleX)]],
         skeleton |-> poseData.skeleton,
         width |-> newWidth,
         height |-> newHeight])

scalePose(poseData, newWidth, newHeight) ==
  LET scaleX == fdiv(newWidth, poseData.width)
      scaleY == fdiv(newHeight, poseData.height)
  IN Ok([keypoints |-> [i \in 1..Len(poseData.keypoints) |->
                          [poseData.keypoints[i] EXCEPT
                             !.x = fmul(poseData.keypoints[i].x, scaleX),
                             !.y = fmul(poseData.keypoints[i].y, scaleY)]],
         skeleton |-> poseData.skeleton,
         width |-> newWidth,
         height |-> newHeight])

\* cos of 0, 15, ..., 180 degrees in millionths
CosMicro ==
  << 1000000, 965926, 866025, 707107, 500000, 258819, 0,
     -258819, -500000, -707107, -866025, -965926, -1000000 >>

\* the angles (degrees, as numbers) whose cosine and sine are tabulated
Angles == { Lit(15 * k, 1) : k \in -12..12 }

Deg(angle) == angle \div One

\* Math.cos((angle * Math.PI) / 180), rounded to the nearest number
fcos(angle) == RoundQ(CosMicro[(Abs(Deg(angle)) \div 15) + 1] * One, 1000000)

\* Math.sin((angle * Math.PI) / 180), rounded to the nearest number
fsin(angle) ==
  LET a == Abs(Deg(angle))
      c == IF a <= 90 THEN CosMicro[((90 - a) \div 15) + 1]
                      ELSE CosMicro[((a - 90) \div 15) + 1]
  IN RoundQ(Sgn(angle) * c * One, 1000000)

\* RotateKeypoint with the sign of relativeY * cos reversed
RotateKeypoint_SignError(poseData, angle, keypoint) ==
  LET centerX == fdiv(poseData.width, Lit(2, 1))
      centerY == fdiv(poseData.height, Lit(2, 1))
      cos == fcos(angle)
      sin == fsin(angle)
      relativeX == fsub(keypoint.x, centerX)
      relativeY == fsub(keypoint.y, centerY)
      rotatedX == fsub(fmul(relativeX, cos), fmul(relativeY, sin))
      rotatedY == fsub(fmul(relativeX, sin), fmul(relativeY, cos))
  IN [keypoint EXCEPT !.x = fadd(rotatedX, centerX),
                      !.y = fadd(rotatedY, centerY)]

\* the callback of keypoints.map in rotatePose
RotateKeypoint(poseData, angle, keypoint) ==
  LET centerX == fdiv(poseData.width, Lit(2, 1))
      centerY == fdiv(poseData.height, Lit(2, 1))
      cos == fcos(angle)
      sin == fsin(angle)
      relativeX == fsub(keypoint.x, centerX)
      relativeY == fsub(keypoint.y, centerY)
      rotatedX == fsub(fmul(relativeX, cos), fmul(relativeY, sin))
      rotatedY == fadd(fmul(relativeX, sin), fmul(relativeY, cos))
  IN [keypoint EXCEPT !.x = fadd(rotatedX, centerX),
                      !.y = fadd(rotatedY, centerY)]

\* rotatePose that exchanges the width and the height of the frame
rotatePose_TurnsFrame(poseData, angle) ==
  Ok([keypoints |-> [i \in 1..Len(poseData.keypoints) |->
                       RotateKeypoint(poseData, angle, poseData.keypoints[i])],
      skeleton |-> poseData.skeleton,
      width |-> poseData.height,
      height |-> poseData.width])

\* rotatePose that loses the last keypoint
rotatePose_DropsLast(poseData, angle) ==
  Ok([keypoints |-> [i \in 1..(Len(poseData.keypoints) - 1) |->
                       RotateKeypoint(poseData, angle, poseData.keypoints[i])],
      skeleton |-> poseData.skeleton,
      width |-> poseData.width,
      height |-> poseData.height])

rotatePose(poseData, angle) ==
  Ok([keypoints |-> [i \in 1..Len(poseData.keypoints) |->
                       RotateKeypoint(poseData, angle, poseData.keypoints[i])],
      skeleton |-> poseData.skeleton,
      width |-> poseData.width,
      height |-> poseData.height])

\* JavaScript truthiness of the three optional fields
Has(transformations, field) == field \in DOMAIN transformations
MirrorRequested(transformations) ==
  Has(transformations, "mirror") /\ transformations.mirror
ScaleRequested(transformations) == Has(transformations, "scale")
RotationRequested(transformations) ==
  /\ Has(transformations, "rotation")
  /\ transformations.rotation # 0
  /\ transformations.rotation # NaN

\* transformPose that rotates before it scales
transformPose_RotateBeforeScale(poseData, transformations) ==
  LET r1 == IF MirrorRequested(transformations)
              THEN mirrorPose(poseData) ELSE Ok(poseData)
      r2 == IF r1.status = "ok" /\ RotationRequested(transformations)
              THEN rotatePose(r1.value, transformations.rotation)
              ELSE r1
      r3 == IF r2.status = "ok" /\ ScaleRequested(transformations)
              THEN scalePose(r2.value, transformations.scale.width,
                             transformations.scale.height)
              ELSE r2
  IN r3

\* a step is applied to the pose the previous step returned; a thrown error
\* ends the call
transformPose(poseData, transformations) ==
  LET r1 == IF MirrorRequested(transformations)
              THEN mirrorPose(poseData) ELSE Ok(poseData)
      r2 == IF r1.status = "ok" /\ ScaleRequested(transformations)
              THEN scalePose(r1.value, transformations.scale.width,
                             transformations.scale.height)
              ELSE r1
      r3 == IF r2.status = "ok" /\ RotationRequested(transformations)
              THEN rotatePose(r2.value, transformations.rotation)
              ELSE r2
  IN r3

\* Qualifies that tests the first keypoint twice and never the second
Qualifies_FirstOnly(kp1, kp2) ==
  fgt(kp1.confidence, Lit(5, 10)) /\ fgt(kp1.confidence, Lit(5, 10))

\* Qualifies that accepts a confidence of exactly 0.5
Qualifies_AtLeastHalf(kp1, kp2) ==
  fge(kp1.confidence, Lit(5, 10)) /\ fge(kp2.confidence, Lit(5, 10))

\* Only compare points with sufficient confidence
Qualifies(kp1, kp2) ==
  fgt(kp1.confidence, Lit(5, 10)) /\ fgt(kp2.confidence, Lit(5, 10))

\* Math.sqrt(dx * dx + dy * dy)
Hypot(dx, dy) == fsqrt(fadd(fmul(dx, dx), fmul(dy, dy)))

Distance(kp1, kp2) == Hypot(fsub(kp1.x, kp2.x), fsub(kp1.y, kp2.y))

\* the divisor of the normalisation: the diagonal of pose1's frame
Diagonal(pose1) ==
  fsqrt(fadd(fmul(pose1.width, pose1.width),
             fmul(pose1.height, pose1.height)))

\* the body of the if in the loop: one more compared pair
Accumulate(st, distance, diagonal) ==
  [i |-> st.i + 1,
   totalDistance |-> fadd(st.totalDistance, fdiv(distance, diagonal)),
   validPoints |-> st.validPoints + 1,
   zeroDivisions |-> st.zeroDivisions + (IF diagonal = 0 THEN 1 ELSE 0)]

\* one iteration of the loop, on the keypoints kp1 and kp2 at index st.i
SimilarityStep(pose1, kp1, kp2, st) ==
  IF Qualifies(kp1, kp2)
    THEN Accumulate(st, Distance(kp1, kp2), Diagonal(pose1))
    ELSE [st EXCEPT !.i = st.i + 1]

\* the loop of calculatePoseSimilarity from the state st (the index i, the
\* two accumulators, and a count of the divisions by 0) to its exit
RECURSIVE SimilarityLoop(_, _, _)
SimilarityLoop(pose1, pose2, st) ==
  IF st.i >= Len(pose1.keypoints) THEN st
  ELSE SimilarityLoop(pose1, pose2,
         SimilarityStep(pose1, At(pose1.keypoints, st.i),
                        At(pose2.keypoints, st.i), st))

\* Math.max(0, 1 - avgDistance * 5)
Score(avgDistance) ==
  fmax(0, fsub(Lit(1, 1), fmul(avgDistance, Lit(5, 1))))

\* the state of the loop before the first keypoint
NoneCompared ==
  [i |-> 0, totalDistance |-> 0, validPoints |-> 0, zeroDivisions |-> 0]

\* SimilarityEnd without the early return for validPoints === 0
SimilarityEnd_NoGuard(st) ==
  [ret |-> Score(fdiv(st.totalDistance, Lit(st.validPoints, 1))),
   compared |-> st.validPoints,
   zeroDivisions |-> st.zeroDivisions
                       + (IF st.validPoints = 0 THEN 1 ELSE 0)]

\* the end of calculatePoseSimilarity, after the loop
SimilarityEnd(st) ==
  IF st.validPoints = 0
    THEN [ret |-> 0, compared |-> 0, zeroDivisions |-> 0]
    ELSE [ret |-> Score(fdiv(st.totalDistance, Lit(st.validPoints, 1))),
          compared |-> st.validPoints,
          zeroDivisions |-> st.zeroDivisions]

\* a run of calculatePoseSimilarity: the returned number, the number of
\* keypoint pairs compared and the number of divisions by zero
SimilarityRun(pose1, pose2) ==
  IF Len(pose1.keypoints) # Len(pose2.keypoints)
    THEN [ret |-> 0, compared |-> 0, zeroDivisions |-> 0]
    ELSE SimilarityEnd(SimilarityLoop(pose1, pose2, NoneCompared))

calculatePoseSimilarity(pose1, pose2) == SimilarityRun(pose1, pose2).ret

\* poses.map(pose => ({ pose, similarity }))
MapSimilarity(targetPose, poses) ==
  [k \in 1..Len(poses) |->
     [pose |-> poses[k],
      similarity |-> calculatePoseSimilarity(targetPose, poses[k])]]

\* the comparator with its operands swapped: an ascending sort
Compare_Ascending(a, b) == fsub(a.similarity, b.similarity)

\* the comparator (a, b) => b.similarity - a.similarity
Compare(a, b) == fsub(b.similarity, a.similarity)

\* Array.prototype.sort is stable: an item goes in front of the first
\* element that the comparator orders after it
RECURSIVE InsertSorted(_, _)
InsertSorted(sorted, item) ==
  IF sorted = <<>> THEN <<item>>
  ELSE IF fgt(Compare(Head(sorted), item), 0) THEN <<item>> \o sorted
  ELSE <<Head(sorted)>> \o InsertSorted(Tail(sorted), item)

RECURSIVE SortBySimilarity(_)
SortBySimilarity(items) ==
  IF items = <<>> THEN <<>>
  ELSE InsertSorted(SortBySimilarity(SubSeq(items, 1, Len(items) - 1)),
                    items[Len(items)])

\* items.slice(0, end) for an integer end >= 0
Slice(items, end) ==
  SubSeq(items, 1, IF end < Len(items) THEN end ELSE Len(items))

findSimilarPoses(targetPose, poses, threshold, maxResults) ==
  LET mapped == MapSimilarity(targetPose, poses)
      Keep(item) == fge(item.similarity, threshold)
  IN Slice(SortBySimilarity(SelectSeq(mapped, Keep)), maxResults)

\* the default values of threshold and maxResults
DefaultThreshold == Lit(7, 10)
DefaultMaxResults == 5

\* the object literal pushed for one variation
Variation(id, title, poseData, transformation) ==
  [id |-> id, title |-> title, poseData |-> poseData,
   transformation |-> transformation]

\* the two scaled and the two rotated poses
ScaledBy(poseData, factor) ==
  scalePose(poseData, fmul(poseData.width, factor),
            fmul(poseData.height, factor)).value

RotatedBy(poseData, angle) == rotatePose(poseData, angle).value

\* generatePoseVariations whose last entry is rotated by +15 again
generatePoseVariations_SameAngleTwice(poseData) ==
  IF MirrorThrows(poseData) THEN Throw
  ELSE Ok(<< Variation("original", "Original", poseData, "none"),
             Variation("mirrored", "Mirrored", mirrorPose(poseData).value,
                       "mirror"),
             Variation("scaled-small", "Scaled 80%",
                       ScaledBy(poseData, Lit(8, 10)), "scale-0.8"),
             Variation("scaled-large", "Scaled 120%",
                       ScaledBy(poseData, Lit(12, 10)), "scale-1.2"),
             Variation("rotated-15", "Rotated 15°",
                       RotatedBy(poseData, Lit(15, 1)), "rotate-15"),
             Variation("rotated-minus-15", "Rotated -15°",
                       RotatedBy(poseData, Lit(15, 1)), "rotate--15") >>)

\* the call throws when mirrorPose(poseData) does; otherwise the six pushes
generatePoseVariations(poseData) ==
  IF MirrorThrows(poseData) THEN Throw
  ELSE Ok(<< Variation("original", "Original", poseData, "none"),
             Variation("mirrored", "Mirrored", mirrorPose(poseData).value,
                       "mirror"),
             Variation("scaled-small", "Scaled 80%",
                       ScaledBy(poseData, Lit(8, 10)), "scale-0.8"),
             Variation("scaled-large", "Scaled 120%",
                       ScaledBy(poseData, Lit(12, 10)), "scale-1.2"),
             Variation("rotated-15", "Rotated 15°",
                       RotatedBy(poseData, Lit(15, 1)), "rotate-15"),
             Variation("rotated-minus-15", "Rotated -15°",
                       RotatedBy(poseData, Lit(-15, 1)), "rotate--15") >>)

(***************************************************************************)
(* validatePoseData takes any value.  A JavaScript value of unknown shape   *)
(* is a record with its kind in the field type: null, undefined, number    *)
(* (with the field value), string (text), boolean (flag), array (items) or  *)
(* object (props, a function from property names).                         *)
(***************************************************************************)

\* typeof v
TypeOf(v) ==
  IF v.type \in {"null", "array", "object"} THEN "object" ELSE v.type

\* the truth value of v as an operand of &&
Truthy(v) ==
  CASE v.type \in {"null", "undefined"} -> FALSE
    [] v.type = "number" -> v.value # 0 /\ v.value # NaN
    [] v.type = "string" -> v.text # ""
    [] v.type = "boolean" -> v.flag
    [] OTHER -> TRUE

\* v.name, for a v that is neither null nor undefined and a name that no
\* array, string, number or boolean has
Get(v, name) ==
  IF v.type = "object" /\ name \in DOMAIN v.props
    THEN v.props[name] ELSE [type |-> "undefined"]

\* the callback of every: it throws on reading kp.x of null or undefined
KeypointIsValid(kp) ==
  IF kp.type \in {"null", "undefined"} THEN Throw
  ELSE Ok(/\ TypeOf(Get(kp, "x")) = "number"
          /\ TypeOf(Get(kp, "y")) = "number"
          /\ TypeOf(Get(kp, "confidence")) = "number"
          /\ TypeOf(Get(kp, "label")) = "string")

\* items.every(callback): the callback runs on the elements in order until
\* it returns false or throws
Every(items) ==
  LET Passes(r) == r.status = "ok" /\ r.value
      stops == { i \in 1..Len(items) : ~Passes(KeypointIsValid(items[i])) }
      first == CHOOSE i \in stops : \A j \in stops : i <= j
  IN IF stops = {} THEN Ok([type |-> "boolean", flag |-> TRUE])
     ELSE IF KeypointIsValid(items[first]).status # "ok" THEN Throw
     ELSE Ok([type |-> "boolean", flag |-> FALSE])

\* a && b && ... returns its first falsy operand, or its last operand
validatePoseData(poseData) ==
  IF ~Truthy(poseData) THEN Ok(poseData)
  ELSE IF \/ Get(poseData, "keypoints").type # "array"
          \/ Get(poseData, "skeleton").type # "array"
          \/ TypeOf(Get(poseData, "width")) # "number"
          \/ TypeOf(Get(poseData, "height")) # "number"
    THEN Ok([type |-> "boolean", flag |-> FALSE])
  ELSE Every(Get(poseData, "keypoints").items)

\* flatMap whose callback returns [y, x, confidence]
FlatMapKeypoints_YFirst(keypoints) ==
  [n \in 1..(3 * Len(keypoints)) |->
     LET kp == keypoints[((n - 1) \div 3) + 1]
     IN CASE n % 3 = 1 -> kp.y
          [] n % 3 = 2 -> kp.x
          [] OTHER -> kp.confidence]

\* keypoints.flatMap(kp => [kp.x, kp.y, kp.confidence])
RECURSIVE FlatMapKeypoints(_)
FlatMapKeypoints(keypoints) ==
  IF keypoints = <<>> THEN <<>>
  ELSE << Head(keypoints).x, Head(keypoints).y, Head(keypoints).confidence >>
         \o FlatMapKeypoints(Tail(keypoints))

toPoseOpenPoseFormat(poseData) ==
  [version |-> Lit(13, 10),
   people |-> << [person_id |-> << Lit(-1, 1) >>,
                  pose_keypoints_2d |-> FlatMapKeypoints(poseData.keypoints),
                  face_keypoints_2d |-> <<>>,
                  hand_left_keypoints_2d |-> <<>>,
                  hand_right_keypoints_2d |-> <<>>,
                  pose_keypoints_3d |-> <<>>,
                  face_keypoints_3d |-> <<>>,
                  hand_left_keypoints_3d |-> <<>>,
                  hand_right_keypoints_3d |-> <<>>] >>]

\* the value null, and the value undefined read past the end of an array
Null == [null |-> TRUE]
Undefined == 2110000000

\* poseKeypoints[i] of a JavaScript array
Elem(poseKeypoints, i) ==
  IF i < Len(poseKeypoints) THEN poseKeypoints[i + 1] ELSE Undefined

\* Object.keys(COCO_KEYPOINTS)[n] || `keypoint_${n}`
LabelAt(n) ==
  IF n < Len(COCO_KEYPOINTS) THEN COCO_KEYPOINTS[n + 1]
  ELSE "keypoint_" \o ToString(n)

\* Standard COCO skeleton connections
COCO_SKELETON ==
  << <<0, 1>>, <<0, 2>>, <<1, 3>>, <<2, 4>>,
     <<5, 6>>, <<5, 7>>, <<7, 9>>, <<6, 8>>, <<8, 10>>,
     <<5, 11>>, <<6, 12>>, <<11, 12>>,
     <<11, 13>>, <<13, 15>>, <<12, 14>>, <<14, 16>> >>

\* the minimum length of pose_keypoints_2d: 17 keypoints * 3 values
MinValues == 51

\* the default frame size of an imported pose
DefaultSize == 768

\* ReadKeypoints that takes y and confidence from each other's place
ReadKeypoints_Swapped(poseKeypoints) ==
  [n \in 1..((Len(poseKeypoints) + 2) \div 3) |->
     [x |-> Elem(poseKeypoints, 3 * (n - 1)),
      y |-> Elem(poseKeypoints, 3 * (n - 1) + 2),
      confidence |-> Elem(poseKeypoints, 3 * (n - 1) + 1),
      label |-> LabelAt(n - 1)]]

\* the for loop of fromOpenPoseFormat: one keypoint per started triple
ReadKeypoints(poseKeypoints) ==
  [n \in 1..((Len(poseKeypoints) + 2) \div 3) |->
     [x |-> Elem(poseKeypoints, 3 * (n - 1)),
      y |-> Elem(poseKeypoints, 3 * (n - 1) + 1),
      confidence |-> Elem(poseKeypoints, 3 * (n - 1) + 2),
      label |-> LabelAt(n - 1)]]

fromOpenPoseFormat(openPoseData) ==
  IF ~Has(openPoseData, "people") \/ Len(openPoseData.people) = 0
    THEN Ok(Null)
  ELSE
    LET person == openPoseData.people[1]
    IN IF Has(person, "null") THEN Throw
       ELSE IF \/ ~Has(person, "pose_keypoints_2d")
               \/ Len(person.pose_keypoints_2d) < MinValues
         THEN Ok(Null)
       ELSE Ok([keypoints |-> ReadKeypoints(person.pose_keypoints_2d),
                skeleton |-> COCO_SKELETON,
                width |-> Lit(DefaultSize, 1),
                height |-> Lit(DefaultSize, 1)])

(***************************************************************************)
(* Inputs: a family of poses around one 17-point COCO figure               *)
(***************************************************************************)
MaxLen == 18
MaxCands == 3

\* the figure's coordinates in pixels, by keypoint index 0..16
FigureX ==
  << 384, 372, 400, 356, 416, 300, 468, 280, 492,
     268, 500, 332, 440, 328, 444, 324, 448 >>
FigureY ==
  << 100, 88, 92, 96, 96, 400, 400, 480, 484,
     560, 556, 600, 600, 680, 684, 760, 756 >>
FigureLabel ==
  << "nose", "leftEye", "rightEye", "leftEar", "rightEar",
     "leftShoulder", "rightShoulder", "leftElbow", "rightElbow",
     "leftWrist", "rightWrist", "leftHip", "rightHip",
     "leftKnee", "rightKnee", "leftAnkle", "rightAnkle" >>

\* confidence of keypoint index i under a confidence pattern
ConfidenceAt(pattern, i) ==
  CASE pattern = "high" -> Lit(1, 1)
    [] pattern = "half" -> Lit(5, 10)
    [] pattern = "left" -> IF i % 2 = 1 THEN Lit(75, 100) ELSE Lit(5, 10)
    [] pattern = "right" -> IF i % 2 = 0 THEN Lit(75, 100) ELSE Lit(25, 100)
    [] pattern = "few" -> IF i <= 1 THEN Lit(1, 1) ELSE Lit(25, 100)

\* the left eye (index 1) is moved according to the variation
FigureKeypoint(i, pattern, variation) ==
  LET x == IF i >= Len(FigureX) THEN Lit(384, 1)
           ELSE IF i = 1 /\ variation = "frac" THEN Lit(1005, 10)
           ELSE IF i = 1 /\ variation = "tiny" THEN Lit(1, One)
           ELSE IF i = 1 /\ variation = "far" THEN Lit(700, 1)
           ELSE Lit(FigureX[i + 1], 1)
      y == IF i >= Len(FigureY) THEN Lit(384, 1)
           ELSE IF i = 1 /\ variation = "far" THEN Lit(600, 1)
           ELSE Lit(FigureY[i + 1], 1)
  IN [x |-> x, y |-> y,
      confidence |-> ConfidenceAt(pattern, i),
      label |-> IF i >= Len(FigureLabel) THEN "extra" ELSE FigureLabel[i + 1]]

ValidBone(bone, len) == bone[1] < len /\ bone[2] < len

MkPose(len, dim, pattern, variation) ==
  LET InRange(bone) == ValidBone(bone, len)
  IN [keypoints |-> [i \in 1..len |-> FigureKeypoint(i - 1, pattern, variation)],
      skeleton |-> SelectSeq(COCO_SKELETON, InRange),
      width |-> Lit(dim[1], 1),
      height |-> Lit(dim[2], 1)]

Lens == {0, 2, 3, 17, MaxLen}
Dims == { <<768, 768>>, <<0, 0>>, <<384, 512>> }
Patterns == {"high", "half", "left", "right"}
Variations == {"none", "frac", "tiny", "far"}

Poses ==
  { MkPose(len, dim, pattern, variation) :
      len \in Lens, dim \in Dims, pattern \in Patterns,
      variation \in Variations }

\* second arguments of calculatePoseSimilarity
OtherPoses ==
  { MkPose(len, dim, pattern, variation) :
      len \in {3, 17}, dim \in Dims, pattern \in {"high", "right"},
      variation \in {"none", "frac"} }

\* poses handed to scalePose, rotatePose and transformPose
SomePoses ==
  { MkPose(len, dim, "high", variation) :
      len \in {2, 17}, dim \in Dims, variation \in {"none", "frac"} }

Sizes == { [width |-> Lit(d[1], 1), height |-> Lit(d[2], 1)] :
             d \in { <<384, 512>>, <<1024, 768>>, <<0, 0>> } }

SomeAngles == { Lit(0, 1), Lit(15, 1), Lit(-15, 1), Lit(90, 1) }

\* the configurations of transformPose: every field is optional
Configs ==
  { [f \in fields |-> IF f = "mirror" THEN c.mirror
                      ELSE IF f = "scale" THEN c.scale ELSE c.rotation] :
      fields \in SUBSET {"mirror", "scale", "rotation"},
      c \in [mirror : BOOLEAN, scale : Sizes, rotation : SomeAngles] }

\* targets and candidates of findSimilarPoses
Targets ==
  { MkPose(17, dim, "few", "none") : dim \in { <<768, 768>>, <<0, 0>> } }

Candidates ==
  { MkPose(17, <<768, 768>>, "few", "none"),
    MkPose(17, <<384, 512>>, "few", "frac"),
    MkPose(17, <<768, 768>>, "few", "tiny"),
    MkPose(17, <<768, 768>>, "few", "far") }

\* candidate lists; the k-th candidate carries the id "p<k>"
WithId(pose, k) ==
  [id |-> "p" \o ToString(k)] @@ pose

CandidateLists ==
  UNION { { [k \in 1..n |-> WithId(c[k], k)] : c \in [1..n -> Candidates] } :
            n \in 0..MaxCands }

Thresholds == { Lit(0, 1), Lit(25, 100), Lit(1, 1) }

\* candidate values of validatePoseData: the pose as a JavaScript value, with
\* each of its four fields present, missing or of the wrong type, and with
\* the keypoint at one position replaced by a defective element
JsKeypoint(kp, defect) ==
  CASE defect = "null" -> [type |-> "null"]
    [] defect = "undefined" -> [type |-> "undefined"]
    [] defect = "number" -> [type |-> "number", value |-> kp.x]
    [] OTHER ->
       [type |-> "object",
        props |->
          [f \in {"x", "y", "confidence", "label"}
                   \ (IF defect = "noLabel" THEN {"label"} ELSE {}) |->
             CASE f = "label" /\ defect = "numberLabel" ->
                    [type |-> "number", value |-> 0]
               [] f = "label" -> [type |-> "string", text |-> kp.label]
               [] f = "x" /\ defect = "stringX" ->
                    [type |-> "string", text |-> "384"]
               [] OTHER -> [type |-> "number", value |-> kp[f]]]]

JsPose(pose, shape, defect, position) ==
  [type |-> "object",
   props |->
     [f \in { g \in DOMAIN shape : shape[g] # "missing" } |->
        CASE shape[f] = "wrong" /\ f \in {"keypoints", "width"} ->
               [type |-> "string", text |-> "not-an-array"]
          [] shape[f] = "wrong" /\ f = "skeleton" ->
               [type |-> "object", props |-> <<>>]
          [] shape[f] = "wrong" /\ f = "height" -> [type |-> "null"]
          [] f = "keypoints" ->
               [type |-> "array",
                items |-> [i \in 1..Len(pose.keypoints) |->
                             JsKeypoint(pose.keypoints[i],
                                        IF i = position THEN defect
                                                        ELSE "none")]]
          [] f = "skeleton" ->
               [type |-> "array",
                items |-> [i \in 1..Len(pose.skeleton) |->
                             [type |-> "array",
                              items |-> [j \in 1..2 |->
                                           [type |-> "number",
                                            value |-> pose.skeleton[i][j]]]]]]
          [] OTHER -> [type |-> "number", value |-> pose[f]]]]

ValidatorInputs ==
  { [type |-> "null"], [type |-> "undefined"],
    [type |-> "number", value |-> 0], [type |-> "number", value |-> NaN],
    [type |-> "number", value |-> Lit(5, 1)],
    [type |-> "string", text |-> ""], [type |-> "string", text |-> "pose"],
    [type |-> "boolean", flag |-> FALSE], [type |-> "boolean", flag |-> TRUE],
    [type |-> "array", items |-> <<>>] }
  \cup { JsPose(MkPose(len, <<768, 768>>, "high", "frac"), shape, defect,
                position) :
           len \in {2, 3},
           shape \in [{"keypoints", "skeleton", "width", "height"} ->
                        {"ok", "missing", "wrong"}],
           defect \in {"none", "null", "undefined", "number", "stringX",
                       "noLabel", "numberLabel"},
           position \in {1, 2} }

(***************************************************************************)
(* Objects in memory.  The heap is the sequence of the objects allocated  *)
(* so far and a reference is a position in it.  An array is a sequence of  *)
(* references (a bone [i, j] is an array of two numbers), a keypoint       *)
(* object is a Keypoint record, and a pose object holds the references of  *)
(* its keypoints array and of its skeleton array with its other fields.    *)
(* Whatever is allocated last is at the reference Len(heap).               *)
(***************************************************************************)
\* a new array of new objects: [o1, ..., on], or what map returns
NewArray(heap, objects) ==
  heap \o objects
       \o << [k \in 1..Len(objects) |-> Len(heap) + k] >>

\* a pose of the caller, laid out in memory
StorePose(heap, pose) ==
  LET h1 == NewArray(heap, pose.keypoints)
      h2 == NewArray(h1, pose.skeleton)
  IN Append(h2, [f \in DOMAIN pose |->
                   IF f = "keypoints" THEN Len(h1)
                   ELSE IF f = "skeleton" THEN Len(h2)
                   ELSE pose[f]])

\* the pose read through the reference poseData
LoadPose(heap, poseData) ==
  LET object == heap[poseData]
      Items(array) == [k \in 1..Len(heap[array]) |-> heap[heap[array][k]]]
  IN [f \in DOMAIN object |->
        IF f \in {"keypoints", "skeleton"} THEN Items(object[f])
        ELSE object[f]]

\* the return of a transform that overwrites the keypoint objects of the
\* source instead of spreading them into new ones
ReturnPose_InPlace(heap, poseData, outcome) ==
  IF outcome.status # "ok"
    THEN [status |-> outcome.status, value |-> 0, heap |-> heap]
    ELSE LET keypoints == heap[heap[poseData].keypoints]
             Slot(a) == CHOOSE i \in 1..Len(keypoints) : keypoints[i] = a
             h1 == [a \in 1..Len(heap) |->
                      IF \E i \in 1..Len(keypoints) : keypoints[i] = a
                        THEN outcome.value.keypoints[Slot(a)]
                        ELSE heap[a]]
             h2 == Append(h1, [keypoints |-> heap[poseData].keypoints,
                               skeleton |-> heap[poseData].skeleton,
                               width |-> outcome.value.width,
                               height |-> outcome.value.height])
         IN [status |-> "ok", value |-> Len(h2), heap |-> h2]

\* the return of mirrorPose, scalePose and rotatePose: map gives a new
\* array of new keypoint objects, and the object literal takes the
\* skeleton of the source by reference; outcome is what the transform
\* computes from the pose read through poseData
ReturnPose(heap, poseData, outcome) ==
  IF outcome.status # "ok"
    THEN [status |-> outcome.status, value |-> 0, heap |-> heap]
    ELSE LET h1 == NewArray(heap, outcome.value.keypoints)
             h2 == Append(h1, [keypoints |-> Len(h1),
                               skeleton |-> heap[poseData].skeleton,
                               width |-> outcome.value.width,
                               height |-> outcome.value.height])
         IN [status |-> "ok", value |-> Len(h2), heap |-> h2]

\* one step of transformPose on what the previous step left; outcome is
\* what the transform of the step computes from the pose at r.value
Step(r, requested, outcome) ==
  IF r.status = "ok" /\ requested
    THEN ReturnPose(r.heap, r.value, outcome)
    ELSE r

\* transformPose on references: result starts as the shallow copy
\* { ...poseData }, which holds the keypoints and skeleton arrays of the
\* source
transformPoseInMemory(heap, poseData, transformations) ==
  LET Pose(r) == LoadPose(r.heap, r.value)
      r0 == [status |-> "ok", value |-> Len(heap) + 1,
             heap |-> Append(heap, heap[poseData])]
      r1 == Step(r0, MirrorRequested(transformations), mirrorPose(Pose(r0)))
      r2 == Step(r1, ScaleRequested(transformations),
                 scalePose(Pose(r1), transformations.scale.width,
                           transformations.scale.height))
  IN Step(r2, RotationRequested(transformations),
          rotatePose(Pose(r2), transformations.rotation))

\* generatePoseVariations on references: the first entry holds the
\* reference it was given, each other entry the pose a transform returned,
\* and the entries are the new objects of the new array variations
generatePoseVariationsInMemory(heap, poseData) ==
  LET Build(catalog) ==
        LET Push(r, k) ==
              ReturnPose(r.heap, poseData, Ok(catalog.value[k].poseData))
            r1 == [status |-> "ok", value |-> poseData, heap |-> heap]
            r2 == Push(r1, 2)
            r3 == Push(r2, 3)
            r4 == Push(r3, 4)
            r5 == Push(r4, 5)
            r6 == Push(r5, 6)
            refs == << r1.value, r2.value, r3.value, r4.value, r5.value,
                       r6.value >>
            variations ==
              NewArray(r6.heap, [k \in 1..6 |->
                                   [catalog.value[k] EXCEPT
                                      !.poseData = refs[k]]])
        IN IF catalog.status # "ok"
             THEN [status |-> catalog.status, value |-> 0, heap |-> heap]
             ELSE [status |-> "ok", value |-> Len(variations),
                   heap |-> variations]
  IN Build(generatePoseVariations(LoadPose(heap, poseData)))

\* findSimilarPoses on references: map and filter return new arrays, sort
\* reorders the array filter returned, slice returns a new array; an item
\* holds the reference of its candidate
findSimilarPosesInMemory(heap, targetPose, poses, threshold, maxResults) ==
  LET Sliced(h3) ==
        LET h4 == Append(h3, Slice(h3[Len(h3)], maxResults))
        IN [status |-> "ok", value |-> Len(h3) + 1, heap |-> h4]
      Sorted(h2, sorted) ==
        Sliced([h2 EXCEPT ![Len(h2)] =
                  [k \in 1..Len(sorted) |-> sorted[k].item]])
      Filtered(h2, filtered) ==
        Sorted(h2, SortBySimilarity(
                     [k \in 1..Len(filtered) |->
                        [item |-> filtered[k],
                         similarity |-> h2[filtered[k]].similarity]]))
      Mapped(h1) ==
        LET Keep(item) == fge(h1[item].similarity, threshold)
        IN Filtered(Append(h1, SelectSeq(h1[Len(h1)], Keep)),
                    SelectSeq(h1[Len(h1)], Keep))
      Similarity(target, candidate) ==
        calculatePoseSimilarity(LoadPose(heap, target),
                                LoadPose(heap, candidate))
  IN Mapped(NewArray(heap, [k \in 1..Len(heap[poses]) |->
                              [pose |-> heap[poses][k],
                               similarity |->
                                 Similarity(targetPose, heap[poses][k])]]))

(***************************************************************************)
(* The calls.  Each call of a utility takes its arguments from the sets    *)
(* above and leaves its outcome in result; the caller may feed a returned  *)
(* pose to a second call.                                                  *)
(***************************************************************************)
None == [none |-> TRUE]

Init ==
  /\ op = "idle"
  /\ args = None
  /\ result = None
  /\ hook = None
  /\ pending = <<>>
  /\ localStorage = <<>>
  /\ exportRun = None

Idle == op = "idle"

CallMirror ==
  /\ Idle
  /\ \E poseData \in Poses :
       /\ op' = "mirrorPose"
       /\ args' = [poseData |-> poseData]
       /\ result' = mirrorPose(poseData)
  /\ UNCHANGED browser

\* mirrorPose applied to the pose the previous mirrorPose returned
CallMirrorAgain ==
  /\ op = "mirrorPose"
  /\ result.status = "ok"
  /\ op' = "mirrorPose(mirrorPose)"
  /\ args' = args
  /\ result' = mirrorPose(result.value)
  /\ UNCHANGED browser

CallScale ==
  /\ Idle
  /\ \E poseData \in SomePoses, size \in Sizes :
       /\ op' = "scalePose"
       /\ args' = [poseData |-> poseData, newWidth |-> size.width,
                   newHeight |-> size.height]
       /\ result' = scalePose(poseData, size.width, size.height)
  /\ UNCHANGED browser

\* the scaled pose scaled back to the frame of the source
CallScaleBack ==
  /\ op = "scalePose"
  /\ result.status = "ok"
  /\ op' = "scalePose(scalePose)"
  /\ args' = args
  /\ result' = scalePose(result.value, args.poseData.width,
                         args.poseData.height)
  /\ UNCHANGED browser

CallRotate ==
  /\ Idle
  /\ \E poseData \in SomePoses, angle \in SomeAngles :
       /\ op' = "rotatePose"
       /\ args' = [poseData |-> poseData, angle |-> angle]
       /\ result' = rotatePose(poseData, angle)
  /\ UNCHANGED browser

\* the rotated pose rotated by a second angle
CallRotateAgain ==
  /\ op = "rotatePose"
  /\ result.status = "ok"
  /\ \E second \in SomeAngles :
       /\ op' = "rotatePose(rotatePose)"
       /\ args' = [poseData |-> args.poseData, angle |-> args.angle,
                   second |-> second]
       /\ result' = rotatePose(result.value, second)
  /\ UNCHANGED browser

CallTransform ==
  /\ Idle
  /\ \E poseData \in SomePoses, transformations \in Configs :
       /\ op' = "transformPose"
       /\ args' = [poseData |-> poseData, transformations |-> transformations]
       /\ result' = transformPose(poseData, transformations)
  /\ UNCHANGED browser

CallSimilarity ==
  /\ Idle
  /\ \E pose1 \in Poses, pose2 \in OtherPoses :
       /\ op' = "calculatePoseSimilarity"
       /\ args' = [pose1 |-> pose1, pose2 |-> pose2]
       /\ result' = Ok(SimilarityRun(pose1, pose2))
  /\ UNCHANGED browser

\* the caller moves one keypoint of one of the two poses (the left or the
\* right eye, to the corner (10, 20)) and calls calculatePoseSimilarity on
\* the changed pair
CallSimilarityMoved ==
  /\ op = "calculatePoseSimilarity"
  /\ Len(args.pose1.keypoints) = Len(args.pose2.keypoints)
  /\ \E index \in {1, 2}, which \in {"pose1", "pose2"}, field \in {"x", "y"} :
       LET Move(pose) ==
             [pose EXCEPT !.keypoints[index + 1][field] =
                            IF field = "x" THEN Lit(10, 1) ELSE Lit(20, 1)]
           moved1 == IF which = "pose1" THEN Move(args.pose1) ELSE args.pose1
           moved2 == IF which = "pose2" THEN Move(args.pose2) ELSE args.pose2
       IN /\ index < Len(args.pose1.keypoints)
          /\ op' = "calculatePoseSimilarity(moved)"
          /\ args' = [pose1 |-> args.pose1, pose2 |-> args.pose2,
                      index |-> index, moved1 |-> moved1, moved2 |-> moved2,
                      before |-> result.value]
          /\ result' = Ok(SimilarityRun(moved1, moved2))
  /\ UNCHANGED browser

CallFindSimilar ==
  /\ Idle
  /\ \E targetPose \in Targets, poses \in CandidateLists,
        threshold \in Thresholds, maxResults \in 0..MaxCands :
       /\ op' = "findSimilarPoses"
       /\ args' = [targetPose |-> targetPose, poses |-> poses,
                   threshold |-> threshold, maxResults |-> maxResults]
       /\ result' = Ok(findSimilarPoses(targetPose, poses, threshold, maxResults))
  /\ UNCHANGED browser

\* findSimilarPoses(targetPose, poses): threshold and maxResults defaulted
CallFindSimilarDefault ==
  /\ Idle
  /\ \E targetPose \in Targets, poses \in CandidateLists :
       /\ op' = "findSimilarPoses"
       /\ args' = [targetPose |-> targetPose, poses |-> poses,
                   threshold |-> DefaultThreshold,
                   maxResults |-> DefaultMaxResults]
       /\ result' = Ok(findSimilarPoses(targetPose, poses, DefaultThreshold,
                                        DefaultMaxResults))
  /\ UNCHANGED browser

CallGenerate ==
  /\ Idle
  /\ \E poseData \in Poses :
       /\ op' = "generatePoseVariations"
       /\ args' = [poseData |-> poseData]
       /\ result' = generatePoseVariations(poseData)
  /\ UNCHANGED browser

CallToOpenPose ==
  /\ Idle
  /\ \E poseData \in Poses :
       /\ op' = "toPoseOpenPoseFormat"
       /\ args' = [poseData |-> poseData]
       /\ result' = Ok(toPoseOpenPoseFormat(poseData))
  /\ UNCHANGED browser

\* fromOpenPoseFormat applied to what toPoseOpenPoseFormat returned
CallFromOpenPose ==
  /\ op = "toPoseOpenPoseFormat"
  /\ op' = "fromOpenPoseFormat(toPoseOpenPoseFormat)"
  /\ args' = args
  /\ result' = fromOpenPoseFormat(result.value)
  /\ UNCHANGED browser

\* OpenPose-shaped objects that carry no usable pose_keypoints_2d: no people
\* field, no person, a null person, a person without the field, and fewer
\* than 51 values
InvalidOpenPoseData ==
  { [version |-> Lit(13, 10)],
    [version |-> Lit(13, 10), people |-> <<>>],
    [version |-> Lit(13, 10), people |-> << Null >>],
    [version |-> Lit(13, 10), people |-> << [person_id |-> << Lit(-1, 1) >>] >>] }
  \cup UNION { { [version |-> Lit(13, 10),
                   people |-> << [person_id |-> << Lit(-1, 1) >>,
                                  pose_keypoints_2d |->
                                    SubSeq(FlatMapKeypoints(poseData.keypoints),
                                           1, n)] >>] :
                    n \in { k \in {0, 1, 6, MinValues - 1} :
                             k <= 3 * Len(poseData.keypoints) } } :
                 poseData \in SomePoses }

\* fromOpenPoseFormat on an object that did not come from toPoseOpenPoseFormat
CallFromOpenPoseInvalid ==
  /\ Idle
  /\ \E openPoseData \in InvalidOpenPoseData :
       /\ op' = "fromOpenPoseFormat"
       /\ args' = [openPoseData |-> openPoseData]
       /\ result' = fromOpenPoseFormat(openPoseData)
  /\ UNCHANGED browser

CallValidate ==
  /\ Idle
  /\ \E poseData \in ValidatorInputs :
       /\ op' = "validatePoseData"
       /\ args' = [poseData |-> poseData]
       /\ result' = validatePoseData(poseData)
  /\ UNCHANGED browser

\* the PoseData a value is once validatePoseData has returned true for it:
\* the same object, read with the types the guard established
PoseOfValue(v) ==
  LET Number(w) == w.value
      KeypointOf(kp) ==
        [x |-> Number(Get(kp, "x")), y |-> Number(Get(kp, "y")),
         confidence |-> Number(Get(kp, "confidence")),
         label |-> Get(kp, "label").text]
      keypoints == Get(v, "keypoints").items
      skeleton == Get(v, "skeleton").items
  IN [keypoints |-> [i \in 1..Len(keypoints) |-> KeypointOf(keypoints[i])],
      skeleton |-> [k \in 1..Len(skeleton) |->
                      [e \in 1..Len(skeleton[k].items) |->
                         Number(skeleton[k].items[e])]],
      width |-> Number(Get(v, "width")),
      height |-> Number(Get(v, "height"))]

\* the value passed the guard and is handed to mirrorPose
CallMirrorValidated ==
  /\ op = "validatePoseData"
  /\ result = Ok([type |-> "boolean", flag |-> TRUE])
  /\ op' = "mirrorPose(validated)"
  /\ args' = args
  /\ result' = mirrorPose(PoseOfValue(args.poseData))
  /\ UNCHANGED browser

\* the value passed the guard and is handed to generatePoseVariations, as
\* in the initialiser of useVariants and in regenerateVariants
CallGenerateValidated ==
  /\ op = "validatePoseData"
  /\ result = Ok([type |-> "boolean", flag |-> TRUE])
  /\ op' = "generatePoseVariations(validated)"
  /\ args' = args
  /\ result' = generatePoseVariations(PoseOfValue(args.poseData))
  /\ UNCHANGED browser

\* the calls on poses in memory: the arguments are references into
\* args.heap, and the call leaves the memory it ends with in result.heap
CallMirrorInMemory ==
  /\ Idle
  /\ \E pose \in SomePoses :
       LET heap == StorePose(<<>>, pose)
       IN /\ op' = "mirrorPose in memory"
          /\ args' = [heap |-> heap, poseData |-> Len(heap)]
          /\ result' = ReturnPose(heap, Len(heap), mirrorPose(pose))
  /\ UNCHANGED browser

CallScaleInMemory ==
  /\ Idle
  /\ \E pose \in SomePoses, size \in Sizes :
       LET heap == StorePose(<<>>, pose)
       IN /\ op' = "scalePose in memory"
          /\ args' = [heap |-> heap, poseData |-> Len(heap),
                      newWidth |-> size.width, newHeight |-> size.height]
          /\ result' = ReturnPose(heap, Len(heap),
                                  scalePose(pose, size.width, size.height))
  /\ UNCHANGED browser

CallRotateInMemory ==
  /\ Idle
  /\ \E pose \in SomePoses, angle \in SomeAngles :
       LET heap == StorePose(<<>>, pose)
       IN /\ op' = "rotatePose in memory"
          /\ args' = [heap |-> heap, poseData |-> Len(heap), angle |-> angle]
          /\ result' = ReturnPose(heap, Len(heap), rotatePose(pose, angle))
  /\ UNCHANGED browser

CallTransformInMemory ==
  /\ Idle
  /\ \E pose \in SomePoses, transformations \in Configs :
       LET heap == StorePose(<<>>, pose)
       IN /\ op' = "transformPose in memory"
          /\ args' = [heap |-> heap, poseData |-> Len(heap),
                      transformations |-> transformations]
          /\ result' = transformPoseInMemory(heap, Len(heap), transformations)
  /\ UNCHANGED browser

\* calculatePoseSimilarity reads its two poses and writes nothing
CallSimilarityInMemory ==
  /\ Idle
  /\ \E first \in SomePoses, second \in SomePoses :
       LET h1 == StorePose(<<>>, first)
           heap == StorePose(h1, second)
       IN /\ op' = "calculatePoseSimilarity in memory"
          /\ args' = [heap |-> heap, pose1 |-> Len(h1), pose2 |-> Len(heap)]
          /\ result' = [status |-> "ok",
                        value |-> calculatePoseSimilarity(
                                    LoadPose(heap, Len(h1)),
                                    LoadPose(heap, Len(heap))),
                        heap |-> heap]
  /\ UNCHANGED browser

\* two candidates, the target and the array poses of the candidates
CallFindSimilarInMemory ==
  /\ Idle
  /\ \E targetPose \in Targets, first \in Candidates, second \in Candidates,
        threshold \in Thresholds, maxResults \in {1, DefaultMaxResults} :
       LET h1 == StorePose(<<>>, WithId(first, 1))
           h2 == StorePose(h1, WithId(second, 2))
           h3 == StorePose(h2, targetPose)
           heap == Append(h3, << Len(h1), Len(h2) >>)
       IN /\ op' = "findSimilarPoses in memory"
          /\ args' = [heap |-> heap, targetPose |-> Len(h3),
                      poses |-> Len(heap), threshold |-> threshold,
                      maxResults |-> maxResults]
          /\ result' = findSimilarPosesInMemory(heap, Len(h3), Len(heap),
                                                threshold, maxResults)
  /\ UNCHANGED browser

CallGenerateInMemory ==
  /\ Idle
  /\ \E pose \in SomePoses :
       LET heap == StorePose(<<>>, pose)
       IN /\ op' = "generatePoseVariations in memory"
          /\ args' = [heap |-> heap, poseData |-> Len(heap)]
          /\ result' = generatePoseVariationsInMemory(heap, Len(heap))
  /\ UNCHANGED browser

\* toPoseOpenPoseFormat reads the keypoints and returns new objects and
\* arrays of numbers; it writes nothing that was there before
CallToOpenPoseInMemory ==
  /\ Idle
  /\ \E pose \in SomePoses :
       LET heap == StorePose(<<>>, pose)
       IN /\ op' = "toPoseOpenPoseFormat in memory"
          /\ args' = [heap |-> heap, poseData |-> Len(heap)]
          /\ result' = [status |-> "ok",
                        value |-> Len(heap) + 1,
                        heap |-> Append(heap,
                                   toPoseOpenPoseFormat(
                                     LoadPose(heap, Len(heap))))]
  /\ UNCHANGED browser

\* the caller drops the outcome
Return ==
  /\ ~Idle
  /\ op' = "idle"
  /\ args' = None
  /\ result' = None
  /\ UNCHANGED browser

(***************************************************************************)
(* useVariants (hooks/useLocalStorage.ts).  A React component holds the     *)
(* state of its last render in hook; the callbacks it hands out are        *)
(* closures of that render and see its variants.length and its             *)
(* currentVariantIndex.  A state update is queued in pending; the next     *)
(* render applies the queued updates of currentVariantIndex (the first     *)
(* useState), then those of variants, in the order of the calls, and an    *)
(* update made while an updater runs is applied in the re-render that      *)
(* follows at once.  A variant is modelled by its id and its isGenerated   *)
(* flag.                                                                   *)
(***************************************************************************)
MaxCalls == 2
MaxNow == 2

\* the object a generated variation is mapped to
GeneratedVariant(id) == [id |-> id, isGenerated |-> TRUE]

\* the initialiser of the variants state: the variants of the first render
InitialVariants(initialVariants, basePoseData, options) ==
  LET valid == validatePoseData(basePoseData)
      generated == generatePoseVariations(PoseOfValue(basePoseData))
  IN IF ~(options.autoGenerateVariants /\ Truthy(basePoseData))
       THEN Ok(initialVariants)
     ELSE IF valid.status # "ok" THEN Throw
     ELSE IF ~Truthy(valid.value) THEN Ok(initialVariants)
     ELSE IF generated.status # "ok" THEN Throw
     ELSE Ok(Slice(initialVariants
                     \o [k \in 1..Len(generated.value) |->
                           GeneratedVariant(generated.value[k].id)],
                   options.maxVariants))

\* a queued update of currentVariantIndex applied to prev
ApplyToIndex(prev, update) ==
  CASE update.to = "value" -> update.value
    [] update.to = "next" -> (prev + 1) % update.length
    [] update.to = "previous" -> (prev - 1 + update.length) % update.length

\* a queued updater of variants applied to prev
ApplyToVariants(prev, update) ==
  LET Other(v) == v.id # update.variantId
      NotGenerated(v) == ~v.isGenerated
  IN CASE update.to = "add" ->
            Slice(Append(prev, update.variant), update.maxVariants)
       [] update.to = "remove" -> SelectSeq(prev, Other)
       [] update.to = "update" ->
            [k \in 1..Len(prev) |->
               IF prev[k].id = update.variantId
                 THEN update.updates @@ prev[k] ELSE prev[k]]
       [] update.to = "regenerate" ->
            Slice(SelectSeq(prev, NotGenerated) \o update.generated,
                  update.maxVariants)

\* the updater of removeVariant calls setCurrentVariantIndex when the index
\* its closure holds is past the end of the filtered list
IndexAfter(index, variants, update) ==
  IF update.to = "remove" /\ update.currentVariantIndex >= Len(variants)
    THEN IF Len(variants) - 1 > 0 THEN Len(variants) - 1 ELSE 0
    ELSE index

\* a render: the queued updates applied in order to the state st
RECURSIVE RenderVariants(_, _, _)
RenderVariants(st, updates, state) ==
  IF updates = <<>> THEN st
  ELSE LET update == Head(updates)
       IN IF update.state # state
            THEN RenderVariants(st, Tail(updates), state)
          ELSE IF state = "currentVariantIndex"
            THEN RenderVariants(
                   [st EXCEPT !.currentVariantIndex =
                                ApplyToIndex(@, update)],
                   Tail(updates), state)
          ELSE LET variants == ApplyToVariants(st.variants, update)
               IN RenderVariants(
                    [st EXCEPT !.variants = variants,
                               !.currentVariantIndex =
                                 IndexAfter(@, variants, update)],
                    Tail(updates), state)

\* the props useVariants is mounted with, and the arguments of its
\* callbacks
JsUndefined == [type |-> "undefined"]

ValidPose(len) ==
  JsPose(MkPose(len, <<768, 768>>, "high", "frac"),
         [f \in {"keypoints", "skeleton", "width", "height"} |-> "ok"],
         "none", 1)

BasePoses == { JsUndefined, ValidPose(3), ValidPose(2) }

GivenVariant(id) == [id |-> id, isGenerated |-> FALSE]

InitialVariantLists ==
  { <<>>, << GivenVariant("a"), GivenVariant("b"), GivenVariant("c") >> }

VariantsOptions ==
  { [autoGenerateVariants |-> TRUE, maxVariants |-> 8],
    [autoGenerateVariants |-> FALSE, maxVariants |-> 2],
    [autoGenerateVariants |-> TRUE, maxVariants |-> 2] }

Mounted(name) == hook # None /\ hook.name = name

\* a callback of the mounted hook was called: it queued updates and
\* returned; now is the reading of the clock it ended with
Called(name, arguments, returned, updates, now) ==
  /\ hook.calls < MaxCalls
  /\ op' = name
  /\ args' = arguments
  /\ result' = returned
  /\ pending' = pending \o updates
  /\ hook' = [hook EXCEPT !.calls = @ + 1, !.now = now]
  /\ UNCHANGED <<localStorage, exportRun>>

\* the first render of a component that uses useVariants
useVariants ==
  /\ hook = None
  /\ Idle
  /\ \E initialVariants \in InitialVariantLists, basePoseData \in BasePoses,
        options \in VariantsOptions :
       LET variants == InitialVariants(initialVariants, basePoseData, options)
       IN /\ op' = "useVariants"
          /\ args' = [initialVariants |-> initialVariants,
                      basePoseData |-> basePoseData, options |-> options]
          /\ result' = variants
          /\ hook' = IF variants.status # "ok" THEN None
                     ELSE [name |-> "useVariants",
                           basePoseData |-> basePoseData,
                           maxVariants |-> options.maxVariants,
                           currentVariantIndex |-> 0,
                           variants |-> variants.value,
                           calls |-> 0, now |-> 0]
          /\ UNCHANGED <<pending, localStorage, exportRun>>

SetIndex(value) ==
  << [state |-> "currentVariantIndex", to |-> "value", value |-> value] >>

goToVariant(index) ==
  /\ Mounted("useVariants")
  /\ Called("goToVariant", [index |-> index], Ok(Undefined),
            IF index >= 0 /\ index < Len(hook.variants)
              THEN SetIndex(index) ELSE <<>>,
            hook.now)

nextVariant ==
  /\ Mounted("useVariants")
  /\ Called("nextVariant", <<>>, Ok(Undefined),
            IF Len(hook.variants) > 0
              THEN << [state |-> "currentVariantIndex", to |-> "next",
                       length |-> Len(hook.variants)] >>
              ELSE <<>>,
            hook.now)

previousVariant ==
  /\ Mounted("useVariants")
  /\ Called("previousVariant", <<>>, Ok(Undefined),
            IF Len(hook.variants) > 0
              THEN << [state |-> "currentVariantIndex", to |-> "previous",
                       length |-> Len(hook.variants)] >>
              ELSE <<>>,
            hook.now)

goToFirstVariant ==
  /\ Mounted("useVariants")
  /\ Called("goToFirstVariant", <<>>, Ok(Undefined), SetIndex(0), hook.now)

goToLastVariant ==
  /\ Mounted("useVariants")
  /\ Called("goToLastVariant", <<>>, Ok(Undefined),
            SetIndex(IF Len(hook.variants) - 1 > 0
                       THEN Len(hook.variants) - 1 ELSE 0),
            hook.now)

\* parseInt(key.replace('Digit', '')) for the keys /^Digit[1-9]$/ matches
DigitOf(key) ==
  CASE key = "Digit1" -> 1 [] key = "Digit2" -> 2 [] key = "Digit3" -> 3
    [] key = "Digit4" -> 4 [] key = "Digit5" -> 5 [] key = "Digit6" -> 6
    [] key = "Digit7" -> 7 [] key = "Digit8" -> 8 [] key = "Digit9" -> 9
    [] OTHER -> 0

handleKeyboardNavigation(key) ==
  /\ Mounted("useVariants")
  /\ CASE key \in {"ArrowLeft", "KeyA"} -> previousVariant
       [] key \in {"ArrowRight", "KeyD"} -> nextVariant
       [] key = "Home" -> goToFirstVariant
       [] key = "End" -> goToLastVariant
       [] DigitOf(key) > 0 /\ DigitOf(key) - 1 < Len(hook.variants) ->
            goToVariant(DigitOf(key) - 1)
       [] OTHER ->
            Called("handleKeyboardNavigation", [key |-> key], Ok(Undefined),
                   <<>>, hook.now)

AddUpdate(variant) ==
  << [state |-> "variants", to |-> "add", variant |-> variant,
      maxVariants |-> hook.maxVariants] >>

addVariant(variant) ==
  /\ Mounted("useVariants")
  /\ Called("addVariant", [variant |-> variant], Ok(Undefined),
            AddUpdate(variant), hook.now)

removeVariant(variantId) ==
  /\ Mounted("useVariants")
  /\ Called("removeVariant", [variantId |-> variantId], Ok(Undefined),
            << [state |-> "variants", to |-> "remove",
                variantId |-> variantId,
                currentVariantIndex |-> hook.currentVariantIndex] >>,
            hook.now)

updateVariant(variantId, updates) ==
  /\ Mounted("useVariants")
  /\ Called("updateVariant", [variantId |-> variantId, updates |-> updates],
            Ok(Undefined),
            << [state |-> "variants", to |-> "update",
                variantId |-> variantId, updates |-> updates] >>,
            hook.now)

regenerateVariants(newBasePoseData, now) ==
  /\ Mounted("useVariants")
  /\ now >= hook.now
  /\ LET poseData == IF Truthy(newBasePoseData) THEN newBasePoseData
                     ELSE hook.basePoseData
         arguments == [newBasePoseData |-> newBasePoseData]
         Generated(variations) ==
           [k \in 1..Len(variations) |->
              GeneratedVariant("generated_" \o variations[k].id
                                 \o "_" \o ToString(now))]
         Regenerate(variations) ==
           IF variations.status # "ok"
             THEN Called("regenerateVariants", arguments, Throw, <<>>,
                         hook.now)
           ELSE Called("regenerateVariants", arguments, Ok(Undefined),
                       << [state |-> "variants", to |-> "regenerate",
                           generated |-> Generated(variations.value),
                           maxVariants |-> hook.maxVariants] >>
                         \o SetIndex(0),
                       now)
         Validated(valid) ==
           IF valid.status # "ok"
             THEN Called("regenerateVariants", arguments, Throw, <<>>,
                         hook.now)
           ELSE IF ~Truthy(valid.value)
             THEN Called("regenerateVariants", arguments, Ok(Undefined),
                         <<>>, hook.now)
           ELSE Regenerate(generatePoseVariations(PoseOfValue(poseData)))
     IN IF ~Truthy(poseData)
          THEN Called("regenerateVariants", arguments, Ok(Undefined), <<>>,
                      hook.now)
          ELSE Validated(validatePoseData(poseData))

createCustomVariant(transformations, now) ==
  /\ Mounted("useVariants")
  /\ now >= hook.now
  /\ LET customVariant == GeneratedVariant("custom_" \o ToString(now))
         arguments == [transformations |-> transformations]
         Create(transformed) ==
           IF transformed.status # "ok"
             THEN Called("createCustomVariant", arguments, Throw, <<>>,
                         hook.now)
           ELSE Called("createCustomVariant", arguments, Ok(customVariant),
                       AddUpdate(customVariant), now)
         Validated(valid) ==
           IF valid.status # "ok"
             THEN Called("createCustomVariant", arguments, Throw, <<>>,
                         hook.now)
           ELSE IF ~Truthy(valid.value)
             THEN Called("createCustomVariant", arguments, Ok(Null), <<>>,
                         hook.now)
           ELSE Create(transformPose(PoseOfValue(hook.basePoseData),
                                     transformations))
     IN IF ~Truthy(hook.basePoseData)
          THEN Called("createCustomVariant", arguments, Ok(Null), <<>>,
                      hook.now)
          ELSE Validated(validatePoseData(hook.basePoseData))

\* React renders the component again: the queue is applied and the new
\* closures see the new state
RenderVariantsHook ==
  /\ Mounted("useVariants")
  /\ pending # <<>>
  /\ hook' = RenderVariants(
               RenderVariants(hook, pending, "currentVariantIndex"),
               pending, "variants")
  /\ pending' = <<>>
  /\ UNCHANGED <<op, args, result, localStorage, exportRun>>

\* C25: whenever useVariants is mounted, currentVariantIndex is 0 if the
\* variant list is empty and otherwise an index of the list, also between
\* the callbacks of one render
C25_IndexInRange ==
  Mounted("useVariants") =>
    IF hook.variants = <<>> THEN hook.currentVariantIndex = 0
    ELSE /\ hook.currentVariantIndex >= 0
         /\ hook.currentVariantIndex < Len(hook.variants)

\* C26: the variant list never holds more than maxVariants variants, and a
\* variant createCustomVariant returned is in the list once the component
\* has rendered again
C26_AtMostMaxVariants ==
  Mounted("useVariants") =>
    /\ Len(hook.variants) <= hook.maxVariants
    /\ (/\ op = "createCustomVariant"
        /\ result.status = "ok"
        /\ result.value # Null
        /\ pending = <<>>)
         => \E k \in 1..Len(hook.variants) : hook.variants[k] = result.value

NextVariants ==
  \/ useVariants
  \/ \E index \in {-1, 1, 8} : goToVariant(index)
  \/ nextVariant
  \/ previousVariant
  \/ goToFirstVariant
  \/ goToLastVariant
  \/ \E key \in {"ArrowLeft", "KeyD", "Home", "End", "Digit2", "Digit9",
                 "Escape"} :
        handleKeyboardNavigation(key)
  \/ \E id \in {"a", "x"} : addVariant(GivenVariant(id))
  \/ \E id \in {"a", "original"} : removeVariant(id)
  \/ updateVariant("a", [isGenerated |-> TRUE])
  \/ \E newBasePoseData \in {JsUndefined, ValidPose(3)},
        now \in 1..MaxNow :
        regenerateVariants(newBasePoseData, now)
  \/ \E transformations \in { [f \in fields |-> TRUE] :
                               fields \in SUBSET {"mirror"} },
        now \in 1..MaxNow :
        createCustomVariant(transformations, now)
  \/ RenderVariantsHook
SpecVariants == Init /\ [][NextVariants]_vars

(***************************************************************************)
(* useLocalStorage and useFavorites.  The value useFavorites keeps is the  *)
(* record [poses, count, lastUpdated]; poses is a function from the keys   *)
(* of the object to its entries, and an entry is a JavaScript value: a     *)
(* FavoriteItem is an object with the props id, title and addedAt, and an  *)
(* imported entry is whatever the imported JSON holds under the key.       *)
(* localStorage maps a key to a JSON text.                                 *)
(***************************************************************************)
FavoritesKey == "posekit-favorites"

\* new Date().toISOString() at the clock reading now
toISOString(now) == "T" \o ToString(now)

FavoriteItem(id, title, addedAt) ==
  [type |-> "object",
   props |-> [id |-> id, title |-> title, addedAt |-> addedAt]]

\* the initialValue useFavorites passes to useLocalStorage
InitialFavorites(now) ==
  [poses |-> <<>>, count |-> 0, lastUpdated |-> toISOString(now)]

\* JSON.stringify of a FavoritesData: the text of an object with the three
\* properties
JSONstringify(value) ==
  [json |->
     [type |-> "object",
      props |-> [poses |-> [type |-> "object", props |-> value.poses],
                 count |-> [type |-> "number", value |-> value.count],
                 lastUpdated |-> [type |-> "string",
                                  text |-> value.lastUpdated]]]]

\* JSON.parse: the value a JSON text denotes, or a SyntaxError
JSONparse(text) ==
  IF "json" \in DOMAIN text THEN Ok(text.json) ELSE Throw

\* a parsed value read as the FavoritesData the hook takes it for
FavoritesOf(v) ==
  [poses |-> Get(v, "poses").props,
   count |-> Get(v, "count").value,
   lastUpdated |-> Get(v, "lastUpdated").text]

\* Object.keys(poses).length
KeysLength(poses) == Cardinality(DOMAIN poses)

\* poses[id] as a condition: the key is there and its entry is truthy
HasTruthy(poses, id) == id \in DOMAIN poses /\ Truthy(poses[id])

\* the updater of addFavorite
AddedFavorite(prev, pose, now) ==
  LET newFavorite ==
        FavoriteItem(pose.id,
                     IF "title" \in DOMAIN pose /\ pose.title # ""
                       THEN pose.title ELSE "Untitled Pose",
                     toISOString(now))
  IN [poses |-> (pose.id :> newFavorite) @@ prev.poses,
      count |-> KeysLength(prev.poses)
                  + (IF HasTruthy(prev.poses, pose.id) THEN 0 ELSE 1),
      lastUpdated |-> toISOString(now)]

\* the updater of bulkRemove, and with one id the updater of removeFavorite
RemovedFavorites(prev, ids, now) ==
  LET newPoses == [k \in DOMAIN prev.poses \ ids |-> prev.poses[k]]
  IN [poses |-> newPoses, count |-> KeysLength(newPoses),
      lastUpdated |-> toISOString(now)]

\* the updater of bulkAdd: a later pose of the list replaces an earlier one
\* with the same id
BulkAdded(prev, poses, now) ==
  LET ids == { poses[i].id : i \in 1..Len(poses) }
      Last(id) == CHOOSE i \in 1..Len(poses) :
                    /\ poses[i].id = id
                    /\ \A j \in 1..Len(poses) : poses[j].id = id => j <= i
      newPoses ==
        [k \in DOMAIN prev.poses \cup ids |->
           IF k \in ids
             THEN FavoriteItem(k, poses[Last(k)].title,
                               IF poses[Last(k)].addedAt # ""
                                 THEN poses[Last(k)].addedAt
                                 ELSE toISOString(now))
             ELSE prev.poses[k]]
  IN [poses |-> newPoses, count |-> KeysLength(newPoses),
      lastUpdated |-> toISOString(now)]

\* the updater of importFavorites; posesData is the object data.poses
ImportedFavorites(prev, posesData, merge, now) ==
  LET newPoses == IF merge THEN posesData @@ prev.poses ELSE posesData
  IN [poses |-> newPoses, count |-> KeysLength(newPoses),
      lastUpdated |-> toISOString(now)]

\* favorites, the first element useLocalStorage returns
favorites ==
  IF hook.isInitialized THEN hook.storedValue ELSE hook.initialValue

isFavorited(id) == HasTruthy(favorites.poses, id)

SetStoredValue(value) == << [state |-> "storedValue", value |-> value] >>

\* a callback that calls setFavorites once.  setValue applies an updater
\* to the storedValue of the render its closure is from, queues the
\* result, writes its JSON text to localStorage and dispatches a storage
\* event, which the hook's own listener answers with a second
\* setStoredValue of the parsed text.  valueToStore is that result.
setValue(name, arguments, returned, valueToStore, now) ==
  /\ hook.calls < MaxCalls
  /\ op' = name
  /\ args' = arguments
  /\ result' = returned
  /\ pending' = pending
       \o SetStoredValue(valueToStore)
       \o SetStoredValue(FavoritesOf(JSONparse(JSONstringify(valueToStore)).value))
  /\ localStorage' = (FavoritesKey :> JSONstringify(valueToStore))
                       @@ localStorage
  /\ hook' = [hook EXCEPT !.calls = @ + 1, !.now = now]
  /\ UNCHANGED exportRun

\* the first render of a component that uses useFavorites(poseId), and its
\* mount effect
useFavorites ==
  /\ IF hook = None THEN TRUE ELSE hook.name = "unmounted"
  /\ \E poseId \in {"", "a"} :
       LET now == IF hook = None THEN 0 ELSE hook.now
           item == IF FavoritesKey \in DOMAIN localStorage
                     THEN JSONparse(localStorage[FavoritesKey])
                     ELSE Throw
       IN /\ hook' = [name |-> "useFavorites", poseId |-> poseId,
                      initialValue |-> InitialFavorites(now),
                      storedValue |-> InitialFavorites(now),
                      isInitialized |-> FALSE,
                      calls |-> IF hook = None THEN 0 ELSE hook.calls,
                      now |-> now]
          /\ pending' =
               (IF FavoritesKey \in DOMAIN localStorage
                     /\ item.status = "ok"
                  THEN SetStoredValue(FavoritesOf(item.value)) ELSE <<>>)
               \o << [state |-> "isInitialized", value |-> TRUE] >>
          /\ op' = "useFavorites"
          /\ args' = [poseId |-> poseId]
          /\ result' = Ok(Undefined)
          /\ UNCHANGED <<localStorage, exportRun>>

\* the clock readings a call that starts at hook.now can see
Clock == { t \in {hook.now, hook.now + 1} : t <= MaxNow }

addFavorite(pose) ==
  /\ Mounted("useFavorites")
  /\ \E now \in Clock :
       setValue("addFavorite", [pose |-> pose], Ok(Undefined),
                AddedFavorite(hook.storedValue, pose, now), now)

removeFavorite(id) ==
  /\ Mounted("useFavorites")
  /\ \E now \in Clock :
       setValue("removeFavorite", [id |-> id], Ok(Undefined),
                RemovedFavorites(hook.storedValue, {id}, now), now)

\* toggleFavoriteById of the returned object; pose is None when the caller
\* passes no pose object
toggleFavorite(pose) ==
  /\ Mounted("useFavorites")
  /\ LET id == IF pose # None /\ pose.id # "" THEN pose.id ELSE hook.poseId
         arguments == [pose |-> pose, id |-> id]
     IN \E now \in Clock :
          IF id = ""
            THEN Called("toggleFavorite", arguments, Ok(FALSE), <<>>, now)
          ELSE IF isFavorited(id)
            THEN setValue("toggleFavorite", arguments, Ok(FALSE),
                          RemovedFavorites(hook.storedValue, {id}, now), now)
          ELSE IF pose # None
            THEN setValue("toggleFavorite", arguments, Ok(TRUE),
                          AddedFavorite(hook.storedValue, pose, now), now)
          ELSE Called("toggleFavorite", arguments, Ok(TRUE), <<>>, now)

\* toggleFavorite of the returned object, which PoseCard calls
toggleCurrentPose ==
  /\ Mounted("useFavorites")
  /\ IF hook.poseId # ""
       THEN toggleFavorite(None)
       ELSE \E now \in Clock :
              Called("toggleFavorite", [pose |-> None, id |-> ""],
                     Ok(FALSE), <<>>, now)

clearAllFavorites ==
  /\ Mounted("useFavorites")
  /\ \E now \in Clock :
       setValue("clearAllFavorites", <<>>, Ok(Undefined),
                InitialFavorites(now), now)

\* JSON texts handed to importFavorites: no JSON at all, null, an object
\* without poses, poses that is a number, and two objects with entries
NoJson == [text |-> "not json"]

ImportTexts ==
  { NoJson,
    [json |-> [type |-> "null"]],
    [json |-> [type |-> "object", props |-> <<>>]],
    [json |-> [type |-> "object",
               props |-> [poses |-> [type |-> "number", value |-> 5]]]],
    [json |-> [type |-> "object",
               props |-> [poses |-> [type |-> "object",
                                     props |-> [a |-> [type |-> "null"]]]]]],
    [json |-> [type |-> "object",
               props |-> [poses |-> [type |-> "object",
                                     props |-> [b |-> FavoriteItem("c", "C",
                                                                   "T0")]]]]] }

importFavorites(jsonData, merge) ==
  /\ Mounted("useFavorites")
  /\ LET data == JSONparse(jsonData)
         arguments == [jsonData |-> jsonData, merge |-> merge]
     IN \E now \in Clock :
          IF \/ data.status # "ok"
             \/ data.value.type \in {"null", "undefined"}
             \/ ~Truthy(Get(data.value, "poses"))
             \/ TypeOf(Get(data.value, "poses")) # "object"
            THEN Called("importFavorites", arguments, Ok(FALSE), <<>>, now)
            ELSE setValue("importFavorites", arguments, Ok(TRUE),
                          ImportedFavorites(hook.storedValue,
                                            Get(data.value, "poses").props,
                                            merge, now),
                          now)

bulkRemove(ids) ==
  /\ Mounted("useFavorites")
  /\ \E now \in Clock :
       setValue("bulkRemove", [ids |-> ids], Ok(Undefined),
                RemovedFavorites(hook.storedValue,
                                 { ids[i] : i \in 1..Len(ids) }, now),
                now)

bulkAdd(poses) ==
  /\ Mounted("useFavorites")
  /\ \E now \in Clock :
       setValue("bulkAdd", [poses |-> poses], Ok(Undefined),
                BulkAdded(hook.storedValue, poses, now), now)

\* React renders the component again: each state takes the last value
\* queued for it
RenderFavorites ==
  /\ Mounted("useFavorites")
  /\ pending # <<>>
  /\ LET Last(state, old) ==
           LET at == { i \in 1..Len(pending) : pending[i].state = state }
           IN IF at = {} THEN old
              ELSE pending[CHOOSE i \in at : \A j \in at : j <= i].value
     IN hook' = [hook EXCEPT
                   !.storedValue = Last("storedValue", @),
                   !.isInitialized = Last("isInitialized", @),
                   !.initialValue = InitialFavorites(hook.now)]
  /\ pending' = <<>>
  /\ UNCHANGED <<op, args, result, localStorage, exportRun>>

\* the component goes away; what it wrote to localStorage stays
Unmount ==
  /\ Mounted("useFavorites")
  /\ hook' = [name |-> "unmounted", calls |-> hook.calls, now |-> hook.now]
  /\ pending' = <<>>
  /\ UNCHANGED <<op, args, result, localStorage, exportRun>>

\* the values of the favorites state: the one of the last render, the
\* queued ones and the one in localStorage
FavoritesValues ==
  { hook.storedValue }
    \cup { pending[i].value :
             i \in { j \in 1..Len(pending) : pending[j].state = "storedValue" } }
    \cup { FavoritesOf(JSONparse(localStorage[k]).value) :
             k \in DOMAIN localStorage }

\* C27: in useFavorites the stored count is the number of entries of poses,
\* in memory and in localStorage, and the entries addFavorite and bulkAdd
\* have just written are stored under their own id
C27_CountIsNumberOfEntries ==
  Mounted("useFavorites") =>
    /\ \A value \in FavoritesValues : value.count = KeysLength(value.poses)
    /\ (op \in {"addFavorite", "bulkAdd"} /\ pending # <<>>) =>
         LET poses == pending[Len(pending)].value.poses
             ids == IF op = "addFavorite" THEN {args.pose.id}
                    ELSE { args.poses[i].id : i \in 1..Len(args.poses) }
         IN \A id \in ids : id \in DOMAIN poses /\ poses[id].props.id = id

\* C28: once the component has rendered again, the boolean a toggle
\* returned for a pose id tells whether that id is a favorite
C28_ToggleReturnsMembership ==
  (/\ Mounted("useFavorites")
   /\ op = "toggleFavorite"
   /\ args.id # ""
   /\ pending = <<>>)
    => (result.value <=> args.id \in DOMAIN hook.storedValue.poses)

\* the value the next updater is applied to if setValue behaves as the
\* setter of useState does: the last value queued, or the rendered one
LatestFavorites ==
  LET at == { i \in 1..Len(pending) : pending[i].state = "storedValue" }
  IN IF at = {} THEN hook.storedValue
     ELSE pending[CHOOSE i \in at : \A j \in at : j <= i].value

\* C29: an addFavorite call queues, and writes to localStorage, its updater
\* applied to the result of the updates queued before it, so that of two
\* calls issued from one render neither is lost
C29_AppliedToPreviousResult ==
  [][(Mounted("useFavorites") /\ op' = "addFavorite"
        /\ hook'.calls = hook.calls + 1)
       => LET composed == AddedFavorite(LatestFavorites, args'.pose, hook'.now)
          IN /\ pending'[Len(pending')].value = composed
             /\ FavoritesOf(JSONparse(localStorage'[FavoritesKey]).value)
                  = composed]_vars

NextFavorites ==
  \/ useFavorites
  \/ \E pose \in { [id |-> "a"], [id |-> "b", title |-> "B"] } :
        addFavorite(pose)
  \/ \E id \in {"a", "b"} : removeFavorite(id)
  \/ \E pose \in { None, [id |-> "a"], [id |-> "b", title |-> "B"] } :
        toggleFavorite(pose)
  \/ toggleCurrentPose
  \/ clearAllFavorites
  \/ \E jsonData \in ImportTexts, merge \in BOOLEAN :
        importFavorites(jsonData, merge)
  \/ bulkRemove(<< "a", "b" >>)
  \/ bulkAdd(<< [id |-> "a", title |-> "A", addedAt |-> ""],
               [id |-> "b", title |-> "B", addedAt |-> "T0"] >>)
  \/ RenderFavorites
  \/ Unmount
SpecFavorites == Init /\ [][NextFavorites]_vars

(***************************************************************************)
(* exportPosesWithProgress.  exportRun is one call of the function: its    *)
(* arguments, the await it is suspended at (pc), its local completed and   *)
(* the log of what it did to the outside: the onProgress calls and the     *)
(* download.  A step runs from one await to the next.                      *)
(***************************************************************************)
MaxPoses == 3

\* poses to export: each has a title and may have a previewUrl
PoseExportLists ==
  UNION { { [i \in 1..n |-> [title |-> "pose " \o ToString(i),
                             previewUrl |-> urls[i]]] :
              urls \in [1..n -> {"", "preview.jpg"}] } :
            n \in 0..MaxPoses }

\* the format is typed 'json' | 'zip' | 'csv'; "pdf" stands for any other
\* string an untyped caller passes
ExportOptions == [format : {"json", "csv", "zip", "pdf"},
                  includeImages : BOOLEAN]

\* (completed / total) * 100 that counts the poses still to do
Progress_Remaining(completed, total) ==
  fmul(fdiv(Lit(total - completed, 1), Lit(total, 1)), Lit(100, 1))

\* (completed / total) * 100
Progress(completed, total) ==
  fmul(fdiv(Lit(completed, 1), Lit(total, 1)), Lit(100, 1))

\* if (onProgress) onProgress(progress, currentItem)
OnProgress(run, progress, currentItem) ==
  IF run.onProgress
    THEN [run EXCEPT !.log = Append(@, [event |-> "onProgress",
                                        progress |-> progress,
                                        currentItem |-> currentItem])]
    ELSE run

\* downloadBlob(blob, filename)
DownloadBlob(run) ==
  [run EXCEPT !.log = Append(@, [event |-> "download"])]

\* the for loop from its current iteration up to the next await: the fetch
\* of a pose that has a previewUrl, or zip.generateAsync after the loop
RECURSIVE Iterate(_)
Iterate(run) ==
  IF run.completed = Len(run.poses)
    THEN [OnProgress(run, Lit(100, 1), "Generating ZIP file...")
            EXCEPT !.pc = "generateAsync"]
  ELSE LET pose == run.poses[run.completed + 1]
           reported == OnProgress(run,
                                  Progress(run.completed, Len(run.poses)),
                                  pose.title)
       IN IF pose.previewUrl # ""
            THEN [reported EXCEPT !.pc = "fetch"]
            ELSE Iterate([reported EXCEPT !.completed = @ + 1])

\* the end of the function: the last onProgress call and the return
Complete(run) ==
  [OnProgress(run, Lit(100, 1), "Export complete") EXCEPT !.pc = "returned"]

\* the call, up to its first await
exportPosesWithProgress ==
  /\ exportRun = None
  /\ \E poses \in PoseExportLists, options \in ExportOptions,
        onProgress \in BOOLEAN :
       exportRun' = [poses |-> poses, options |-> options,
                     onProgress |-> onProgress, completed |-> 0,
                     log |-> <<>>, images |-> {}, failed |-> {},
                     pc |-> IF options.format = "zip" /\ options.includeImages
                              THEN "exportPosesToCSV" ELSE "exportPoses"]
  /\ UNCHANGED <<op, args, result, hook, pending, localStorage>>

\* metadata.json and poses.csv are in the zip; the loop starts
CsvAdded ==
  /\ exportRun # None
  /\ exportRun.pc = "exportPosesToCSV"
  /\ exportRun' = Iterate(exportRun)
  /\ UNCHANGED <<op, args, result, hook, pending, localStorage>>

\* the fetch of the current pose's image settles: the image arrives and is
\* added, the response is not ok, fetch rejects, or reading the body
\* rejects; the loop goes on in each case
FetchSettled ==
  /\ exportRun # None
  /\ exportRun.pc = "fetch"
  /\ \E response \in {"ok", "not ok", "rejected", "body rejected"} :
       LET index == exportRun.completed + 1
       IN exportRun' =
            Iterate([exportRun EXCEPT
                       !.images = IF response = "ok"
                                    THEN @ \cup {index} ELSE @,
                       !.failed = IF response # "ok"
                                    THEN @ \cup {index} ELSE @,
                       !.completed = index])
  /\ UNCHANGED <<op, args, result, hook, pending, localStorage>>

\* zip.generateAsync settles: the blob is downloaded and the function
\* ends, or the rejection leaves the function
ZipGenerated ==
  /\ exportRun # None
  /\ exportRun.pc = "generateAsync"
  /\ \E generated \in BOOLEAN :
       exportRun' = IF generated THEN Complete(DownloadBlob(exportRun))
                    ELSE [exportRun EXCEPT !.pc = "thrown"]
  /\ UNCHANGED <<op, args, result, hook, pending, localStorage>>

\* await exportPoses(poses, options) settles: it downloaded a file, or it
\* threw (always so for a format it does not know)
ExportPosesSettled ==
  /\ exportRun # None
  /\ exportRun.pc = "exportPoses"
  /\ \E exported \in BOOLEAN :
       exportRun' =
         IF exported /\ exportRun.options.format \in {"json", "csv", "zip"}
           THEN Complete(DownloadBlob(exportRun))
           ELSE [exportRun EXCEPT !.pc = "thrown"]
  /\ UNCHANGED <<op, args, result, hook, pending, localStorage>>

\* C30: the progress values are within [0, 100] and never decrease; a
\* failed image download neither ends the run nor skips a pose; and the
\* call (100, 'Export complete') is made exactly when the function
\* returns, after every per-pose call and after the download
C30_ProgressAndCompletion ==
  exportRun # None =>
    LET run == exportRun
        log == run.log
        Calls == { i \in 1..Len(log) : log[i].event = "onProgress" }
        Final == { i \in Calls : log[i].currentItem = "Export complete" }
        Downloads == { i \in 1..Len(log) : log[i].event = "download" }
        PerPose == { i \in Calls :
                       \E k \in 1..Len(run.poses) :
                         log[i].currentItem = run.poses[k].title }
        zipWithImages == run.options.format = "zip"
                           /\ run.options.includeImages
    IN /\ \A i \in Calls :
            /\ fge(log[i].progress, Lit(0, 1))
            /\ fge(Lit(100, 1), log[i].progress)
            /\ \A j \in Calls : i < j => fge(log[j].progress, log[i].progress)
       /\ (run.failed # {} /\ run.pc = "thrown")
            => run.completed = Len(run.poses)
       /\ (zipWithImages /\ run.pc \in {"generateAsync", "returned", "thrown"})
            => /\ run.completed = Len(run.poses)
               /\ run.images \cup run.failed
                    = { k \in 1..Len(run.poses) :
                          run.poses[k].previewUrl # "" }
               /\ run.onProgress => Cardinality(PerPose) = Len(run.poses)
       /\ run.onProgress => (Final # {} <=> run.pc = "returned")
       /\ \A f \in Final :
            /\ f = Len(log)
            /\ Downloads # {}
            /\ \A i \in PerPose \cup Downloads : i < f

\* a run over three poses returned although an image download failed
C30_Witness ==
  /\ exportRun # None
  /\ exportRun.pc = "returned"
  /\ exportRun.onProgress
  /\ Len(exportRun.poses) = 3
  /\ exportRun.failed # {}
  /\ exportRun.images # {}
  /\ exportRun.log[Len(exportRun.log)].currentItem = "Export complete"

NextExport ==
  \/ exportPosesWithProgress
  \/ CsvAdded
  \/ FetchSettled
  \/ ZipGenerated
  \/ ExportPosesSettled
SpecExport == Init /\ [][NextExport]_vars

Next ==
  \/ CallMirror
  \/ CallMirrorAgain
  \/ CallScale
  \/ CallScaleBack
  \/ CallRotate
  \/ CallRotateAgain
  \/ CallTransform
  \/ CallSimilarity
  \/ CallSimilarityMoved
  \/ CallFindSimilar
  \/ CallFindSimilarDefault
  \/ CallGenerate
  \/ CallToOpenPose
  \/ CallFromOpenPose
  \/ CallFromOpenPoseInvalid
  \/ CallValidate
  \/ CallMirrorValidated
  \/ CallGenerateValidated
  \/ CallMirrorInMemory
  \/ CallScaleInMemory
  \/ CallRotateInMemory
  \/ CallTransformInMemory
  \/ CallSimilarityInMemory
  \/ CallFindSimilarInMemory
  \/ CallGenerateInMemory
  \/ CallToOpenPoseInMemory
  \/ Return
  \/ NextVariants
  \/ NextFavorites
  \/ NextExport

Spec == Init /\ [][Next]_vars

\* the calls of one utility at a time
NextMirror == CallMirror \/ CallMirrorAgain \/ Return
SpecMirror == Init /\ [][NextMirror]_vars

NextSimilarityMoved == CallSimilarity \/ CallSimilarityMoved \/ Return
SpecSimilarityMoved == Init /\ [][NextSimilarityMoved]_vars

\* the calls on poses in memory
NextMemory ==
  \/ CallMirrorInMemory \/ CallScaleInMemory \/ CallRotateInMemory
  \/ CallTransformInMemory \/ CallSimilarityInMemory
  \/ CallFindSimilarInMemory \/ CallGenerateInMemory
  \/ CallToOpenPoseInMemory \/ Return
SpecMemory == Init /\ [][NextMemory]_vars

\* the four transforms of a pose
NextTransforms ==
  \/ CallMirror \/ CallMirrorAgain \/ CallScale \/ CallScaleBack
  \/ CallRotate \/ CallRotateAgain \/ CallTransform \/ Return
SpecTransforms == Init /\ [][NextTransforms]_vars

NextGeometry ==
  \/ CallScale \/ CallScaleBack \/ CallRotate \/ CallRotateAgain
  \/ CallTransform \/ Return
SpecGeometry == Init /\ [][NextGeometry]_vars

NextSimilarity == CallSimilarity \/ Return
SpecSimilarity == Init /\ [][NextSimilarity]_vars

NextFindSimilar == CallFindSimilar \/ CallFindSimilarDefault \/ Return
SpecFindSimilar == Init /\ [][NextFindSimilar]_vars

NextGenerate == CallGenerate \/ Return
SpecGenerate == Init /\ [][NextGenerate]_vars

NextOpenPose ==
  CallToOpenPose \/ CallFromOpenPose \/ CallFromOpenPoseInvalid \/ Return
SpecOpenPose == Init /\ [][NextOpenPose]_vars

NextValidate ==
  CallValidate \/ CallMirrorValidated \/ CallGenerateValidated \/ Return
SpecValidate == Init /\ [][NextValidate]_vars

(***************************************************************************)
(* Properties                                                              *)
(***************************************************************************)

\* C1: for a PoseData P with the 17-point COCO layout, mirrorPose(P) has at
\* every position i the coordinates of P's keypoint at the mirror partner j
\* of i (1<->2, 3<->4, ..., 15<->16; j = i for index 0) with x replaced by
\* P.width - x and y kept, and the label of P's keypoint at i itself.
C1_MirrorTakesPartner ==
  (op = "mirrorPose" /\ Len(args.poseData.keypoints) = 17) =>
    /\ result.status = "ok"
    /\ Len(result.value.keypoints) = 17
    /\ \A i \in 0..16 :
         LET j == IF i = 0 THEN 0 ELSE IF i % 2 = 1 THEN i + 1 ELSE i - 1
             P == args.poseData
             out == result.value.keypoints[i + 1]
         IN /\ out.x = fsub(P.width, P.keypoints[j + 1].x)
            /\ out.y = P.keypoints[j + 1].y
            /\ out.label = P.keypoints[i + 1].label

\* the scenario of the specification: a 768x768 frame with the left shoulder
\* at (300,400) and the right shoulder at (468,400); the left eye and the
\* right eye are not mirror images of each other
C1_Witness ==
  /\ op = "mirrorPose"
  /\ Len(args.poseData.keypoints) = 17
  /\ args.poseData.width = Lit(768, 1)
  /\ args.poseData.keypoints[6].x = Lit(300, 1)
  /\ args.poseData.keypoints[7].x = Lit(468, 1)
  /\ result.status = "ok"
  /\ result.value.keypoints[6].x = Lit(300, 1)
  /\ result.value.keypoints[6].y = Lit(400, 1)
  /\ result.value.keypoints[7].x = Lit(468, 1)
  /\ result.value.keypoints[6].label = "leftShoulder"
  /\ result.value.keypoints[2].x # args.poseData.keypoints[2].x
  /\ result.value.keypoints[2].y # args.poseData.keypoints[2].y

\* C2 as stated: mirroring twice reproduces every x and y of P exactly.
C2_MirrorTwiceExact ==
  (op = "mirrorPose(mirrorPose)" /\ result.status = "ok") =>
    \A i \in 1..Len(args.poseData.keypoints) :
       /\ result.value.keypoints[i].x = args.poseData.keypoints[i].x
       /\ result.value.keypoints[i].y = args.poseData.keypoints[i].y

\* C2 amended: when mirrorPose returns for P, mirroring twice reproduces
\* every y of P, and the x of every keypoint for which width - x is computed
\* without rounding; the other x may be off by the rounding error.
C2_MirrorTwiceExactWhereUnrounded ==
  (op = "mirrorPose(mirrorPose)" /\ result.status = "ok") =>
    /\ Len(result.value.keypoints) = Len(args.poseData.keypoints)
    /\ \A i \in 1..Len(args.poseData.keypoints) :
         LET P == args.poseData
         IN /\ result.value.keypoints[i].y = P.keypoints[i].y
            /\ Representable(P.width - P.keypoints[i].x) =>
                 result.value.keypoints[i].x = P.keypoints[i].x

\* a 17-point pose whose left and right sides differ and whose every
\* width - x is exact has been mirrored twice
C2_Witness ==
  /\ op = "mirrorPose(mirrorPose)"
  /\ result.status = "ok"
  /\ Len(args.poseData.keypoints) = 17
  /\ args.poseData.width = Lit(768, 1)
  /\ args.poseData.keypoints[2].x # args.poseData.keypoints[3].x
  /\ \A i \in 1..17 :
       Representable(args.poseData.width - args.poseData.keypoints[i].x)
  /\ result.value.keypoints = args.poseData.keypoints

\* C3 as stated: calculatePoseSimilarity(P, Q) equals
\* calculatePoseSimilarity(Q, P) for all P and Q, frames of different size
\* included (stated here for frames of positive size, where both results
\* are numbers).
C3_SimilaritySymmetric ==
  (/\ op = "calculatePoseSimilarity"
   /\ args.pose1.width > 0 /\ args.pose1.height > 0
   /\ args.pose2.width > 0 /\ args.pose2.height > 0) =>
    result.value.ret = calculatePoseSimilarity(args.pose2, args.pose1)

\* C3 amended: calculatePoseSimilarity(P, Q) and calculatePoseSimilarity(Q, P)
\* give the same result whenever P and Q have the same width and the same
\* height.
C3_SimilaritySymmetricSameFrame ==
  (/\ op = "calculatePoseSimilarity"
   /\ args.pose1.width = args.pose2.width
   /\ args.pose1.height = args.pose2.height) =>
    result.value.ret = calculatePoseSimilarity(args.pose2, args.pose1)

\* two poses of the same frame that differ in a compared keypoint and in
\* their confidences, with a score strictly between 0 and 1
C3_Witness ==
  /\ op = "calculatePoseSimilarity"
  /\ args.pose1.width = args.pose2.width
  /\ args.pose1.height = args.pose2.height
  /\ Len(args.pose1.keypoints) = 17
  /\ Len(args.pose2.keypoints) = 17
  /\ args.pose1.keypoints[2].x # args.pose2.keypoints[2].x
  /\ args.pose1.keypoints[3].confidence # args.pose2.keypoints[3].confidence
  /\ result.value.compared > 0
  /\ result.value.ret > 0
  /\ result.value.ret < Lit(1, 1)

\* C4: the result of calculatePoseSimilarity is always a number in [0, 1],
\* also when the first pose's width and height are both 0.
C4_SimilarityInUnitInterval ==
  (op = "calculatePoseSimilarity") =>
    /\ result.status = "ok"
    /\ IsNum(result.value.ret)
    /\ result.value.ret >= 0
    /\ result.value.ret <= Lit(1, 1)

\* C5: calculatePoseSimilarity(P, P) = 1 for any P that has at least one
\* keypoint with confidence > 0.5.
C5_SimilarityReflexive ==
  (/\ op = "calculatePoseSimilarity"
   /\ args.pose1 = args.pose2
   /\ \E i \in 1..Len(args.pose1.keypoints) :
        fgt(args.pose1.keypoints[i].confidence, Lit(5, 10))) =>
    result.value.ret = Lit(1, 1)

\* C6: calculatePoseSimilarity returns 0, raises no error and divides by
\* nothing, whenever the poses have different keypoint counts or no index has
\* confidence > 0.5 in both poses.
C6_NothingComparedGivesZero ==
  (/\ op = "calculatePoseSimilarity"
   /\ \/ Len(args.pose1.keypoints) # Len(args.pose2.keypoints)
      \/ \A i \in 1..Len(args.pose1.keypoints) :
           ~(/\ args.pose1.keypoints[i].confidence > Lit(5, 10)
             /\ args.pose2.keypoints[i].confidence > Lit(5, 10))) =>
    /\ result.status = "ok"
    /\ result.value.ret = 0
    /\ result.value.compared = 0
    /\ result.value.zeroDivisions = 0

\* two 17-point poses, each with confident keypoints but none at a common
\* index, the first in a 0x0 frame
C6_Witness ==
  /\ op = "calculatePoseSimilarity"
  /\ Len(args.pose1.keypoints) = 17
  /\ Len(args.pose2.keypoints) = 17
  /\ args.pose1.width = 0
  /\ args.pose1.height = 0
  /\ \E i \in 1..17 : args.pose1.keypoints[i].confidence > Lit(5, 10)
  /\ \E i \in 1..17 : args.pose2.keypoints[i].confidence > Lit(5, 10)
  /\ \A i \in 1..17 :
       ~(/\ args.pose1.keypoints[i].confidence > Lit(5, 10)
         /\ args.pose2.keypoints[i].confidence > Lit(5, 10))
  /\ result.value.ret = 0

\* the calculatePoseSimilarity score of every candidate, in input order
RECURSIVE C7_Scores(_, _)
C7_Scores(targetPose, poses) ==
  IF poses = <<>> THEN <<>>
  ELSE <<calculatePoseSimilarity(targetPose, Head(poses))>>
         \o C7_Scores(targetPose, Tail(poses))

\* candidate k1 ranks before candidate k2: a higher score, or the same score
\* and earlier in the input
C7_Before(score, k1, k2) ==
  \/ score[k1] > score[k2]
  \/ (score[k1] = score[k2] /\ k1 < k2)

\* R is the answer for the candidates poses with the scores score
C7_Answer(poses, score, threshold, maxResults, R) ==
  LET Qualifying == { k \in 1..Len(poses) : fge(score[k], threshold) }
      Idx(n) == CHOOSE k \in 1..Len(poses) : poses[k] = R[n].pose
      Returned == { Idx(n) : n \in 1..Len(R) }
  IN /\ Len(R) = IF maxResults < Cardinality(Qualifying)
                   THEN maxResults ELSE Cardinality(Qualifying)
     /\ \A n \in 1..Len(R) :
          /\ DOMAIN R[n] = {"pose", "similarity"}
          /\ \E k \in Qualifying :
               R[n].pose = poses[k] /\ R[n].similarity = score[k]
     /\ \A n1, n2 \in 1..Len(R) :
          n1 < n2 => C7_Before(score, Idx(n1), Idx(n2))
     /\ \A k \in Qualifying \ Returned :
          \A n \in 1..Len(R) : C7_Before(score, Idx(n), k)

\* C7: findSimilarPoses returns exactly the candidates whose similarity to
\* the target is >= threshold, in descending order of similarity with ties in
\* input order, cut to the first maxResults entries; every returned pair is
\* an input candidate with its calculatePoseSimilarity score, and every
\* qualifying candidate left out comes after all returned ones in that order.
C7_FindSimilarFilterSortTruncate ==
  (op = "findSimilarPoses") =>
    /\ result.status = "ok"
    /\ C7_Answer(args.poses, C7_Scores(args.targetPose, args.poses),
                 args.threshold, args.maxResults, result.value)

\* three qualifying candidates cut to two: the best one was not first in
\* the input, and the second place was tied with the candidate left out
C7_Witness ==
  /\ op = "findSimilarPoses"
  /\ Len(args.poses) = 3
  /\ args.maxResults = 2
  /\ Len(result.value) = 2
  /\ result.value[1].pose = args.poses[2]
  /\ result.value[2].pose = args.poses[1]
  /\ result.value[1].similarity > result.value[2].similarity
  /\ result.value[2].similarity > 0
  /\ calculatePoseSimilarity(args.targetPose, args.poses[3])
       = result.value[2].similarity

\* what the steps named by a configuration give on poseData when applied in
\* the order mirror, scale, rotate
C8_Rotated(r, rotate, angle) ==
  IF r.status = "ok" /\ rotate THEN rotatePose(r.value, angle) ELSE r

C8_Scaled(r, scale, transformations) ==
  IF r.status = "ok" /\ scale
    THEN scalePose(r.value, transformations.scale.width,
                   transformations.scale.height)
    ELSE r

C8_Mirrored(poseData, mirror) ==
  IF mirror THEN mirrorPose(poseData) ELSE Ok(poseData)

C8_InOrder(poseData, transformations, mirror, scale, rotate) ==
  C8_Rotated(C8_Scaled(C8_Mirrored(poseData, mirror), scale, transformations),
             rotate,
             IF Has(transformations, "rotation")
               THEN transformations.rotation ELSE 0)

\* C8 as stated: the rotation step is applied whenever the configuration has
\* a rotation field (mirror: true and a scale field select the other two
\* steps), in the order mirror, scale, rotate.
C8_TransformAppliesPresentSteps ==
  (op = "transformPose") =>
    result = C8_InOrder(args.poseData, args.transformations,
                        /\ Has(args.transformations, "mirror")
                        /\ args.transformations.mirror,
                        Has(args.transformations, "scale"),
                        Has(args.transformations, "rotation"))

\* C8: transformPose applies, in the order mirror, scale, rotate, the steps
\* whose field is truthy: mirror when mirror is true, scale when a scale is
\* given, rotate when rotation is a number other than 0 and NaN; each step
\* takes the pose the previous one returned, and an error thrown by mirrorPose
\* ends the call.  An empty configuration returns poseData's keypoints,
\* skeleton, width and height.
C8_TransformAppliesTruthySteps ==
  (op = "transformPose") =>
    /\ result = C8_InOrder(args.poseData, args.transformations,
                           /\ Has(args.transformations, "mirror")
                           /\ args.transformations.mirror,
                           Has(args.transformations, "scale"),
                           /\ Has(args.transformations, "rotation")
                           /\ args.transformations.rotation # 0
                           /\ args.transformations.rotation # NaN)
    /\ (DOMAIN args.transformations = {}) =>
         /\ result.status = "ok"
         /\ result.value.keypoints = args.poseData.keypoints
         /\ result.value.skeleton = args.poseData.skeleton
         /\ result.value.width = args.poseData.width
         /\ result.value.height = args.poseData.height

\* all three steps on a 17-point pose with a fractional coordinate: the
\* result is in the scaled frame and differs from the scaled mirror image
C8_Witness ==
  /\ op = "transformPose"
  /\ result.status = "ok"
  /\ Len(args.poseData.keypoints) = 17
  /\ args.poseData.keypoints[2].x = Lit(1005, 10)
  /\ args.poseData.width = Lit(768, 1)
  /\ DOMAIN args.transformations = {"mirror", "scale", "rotation"}
  /\ args.transformations.mirror
  /\ args.transformations.scale.width = Lit(1024, 1)
  /\ args.transformations.rotation = Lit(15, 1)
  /\ result.value.width = Lit(1024, 1)
  /\ result.value.keypoints[2].y # args.poseData.keypoints[3].y

\* the identifiers of the six variations as the code pushes them
C9_Ids ==
  << "original", "mirrored", "scaled-small", "scaled-large", "rotated-15",
     "rotated-minus-15" >>

\* the poses of the six variations of P
C9_Poses(P) ==
  << P, mirrorPose(P).value,
     scalePose(P, fmul(P.width, Lit(8, 10)), fmul(P.height, Lit(8, 10))).value,
     scalePose(P, fmul(P.width, Lit(12, 10)),
               fmul(P.height, Lit(12, 10))).value,
     rotatePose(P, Lit(15, 1)).value, rotatePose(P, Lit(-15, 1)).value >>

\* V is a list of six entries of four fields with the identifiers ids and the
\* poses poses, in that order
C9_Catalog(V, ids, poses) ==
  /\ Len(V) = 6
  /\ \A n \in 1..6 :
       /\ DOMAIN V[n] = {"id", "title", "poseData", "transformation"}
       /\ V[n].id = ids[n]
       /\ V[n].poseData = poses[n]

\* C9 as stated, for the poses on which the call returns: the sixth
\* identifier is rotated--15.
C9_SixVariationsAsStated ==
  (op = "generatePoseVariations" /\ result.status = "ok") =>
    C9_Catalog(result.value,
               [C9_Ids EXCEPT ![6] = "rotated--15"],
               C9_Poses(args.poseData))

\* C9: generatePoseVariations(P) throws when mirrorPose(P) throws; otherwise
\* it returns exactly six entries with the identifiers original, mirrored,
\* scaled-small, scaled-large, rotated-15, rotated-minus-15 in this order,
\* whose poseData are P, mirrorPose(P), scalePose(P, 0.8 * width, 0.8 *
\* height), scalePose(P, 1.2 * width, 1.2 * height), rotatePose(P, 15) and
\* rotatePose(P, -15), each with an id, a title, a poseData and a
\* transformation tag; the tag of the last one is rotate--15.
C9_SixVariations ==
  (op = "generatePoseVariations") =>
    IF mirrorPose(args.poseData).status = "ok"
      THEN /\ result.status = "ok"
           /\ C9_Catalog(result.value, C9_Ids, C9_Poses(args.poseData))
           /\ result.value[6].transformation = "rotate--15"
      ELSE result = Throw

\* the variations of a 17-point pose: the two rotations differ from each
\* other and from the original
C9_Witness ==
  /\ op = "generatePoseVariations"
  /\ result.status = "ok"
  /\ Len(args.poseData.keypoints) = 17
  /\ args.poseData.width = Lit(768, 1)
  /\ result.value[6].id = "rotated-minus-15"
  /\ result.value[5].poseData # result.value[6].poseData
  /\ result.value[6].poseData # result.value[1].poseData

\* Q has the keypoint coordinates and confidences of P, in a 768 x 768 frame
C10_Reproduces(P, Q) ==
  /\ Q # Null
  /\ Len(Q.keypoints) = Len(P.keypoints)
  /\ \A i \in 1..Len(P.keypoints) :
       /\ Q.keypoints[i].x = P.keypoints[i].x
       /\ Q.keypoints[i].y = P.keypoints[i].y
       /\ Q.keypoints[i].confidence = P.keypoints[i].confidence
  /\ Q.width = Lit(768, 1)
  /\ Q.height = Lit(768, 1)

\* C10 as stated: the round trip of any pose is a non-null pose with the
\* keypoint coordinates and confidences of P in a 768 x 768 frame.
C10_RoundTripAnyPose ==
  (op = "fromOpenPoseFormat(toPoseOpenPoseFormat)") =>
    result.status = "ok" /\ C10_Reproduces(args.poseData, result.value)

\* C10: for a pose P of at least 17 keypoints,
\* fromOpenPoseFormat(toPoseOpenPoseFormat(P)) is a non-null pose with as many
\* keypoints as P, the x, y and confidence of P at every position, and width
\* and height 768 whatever P's are; for a pose of fewer than 17 keypoints it
\* is null.
C10_RoundTripFromSeventeen ==
  (op = "fromOpenPoseFormat(toPoseOpenPoseFormat)") =>
    /\ result.status = "ok"
    /\ IF Len(args.poseData.keypoints) >= 17
         THEN C10_Reproduces(args.poseData, result.value)
         ELSE result.value = Null

\* the round trip of a pose of more than 17 keypoints in a 384 x 512 frame,
\* with a fractional coordinate and confidences that differ from the y's
C10_Witness ==
  /\ op = "fromOpenPoseFormat(toPoseOpenPoseFormat)"
  /\ Len(args.poseData.keypoints) = MaxLen
  /\ args.poseData.width = Lit(384, 1)
  /\ args.poseData.keypoints[2].x = Lit(1005, 10)
  /\ result.value # Null
  /\ Len(result.value.keypoints) = MaxLen
  /\ result.value.width = Lit(768, 1)

\* C11: on an input whose people list, first person or pose_keypoints_2d is
\* absent, or whose pose_keypoints_2d has fewer than 51 values,
\* fromOpenPoseFormat returns null and does not throw.
C11_InvalidInputGivesNull ==
  (op = "fromOpenPoseFormat") => result = Ok(Null)

\* v has the shape of a PoseData: keypoints and skeleton are arrays, width
\* and height are numbers, and every keypoint is a value with numeric x, y
\* and confidence and a string label
C12_WellFormed(v) ==
  /\ v.type = "object"
  /\ {"keypoints", "skeleton", "width", "height"} \subseteq DOMAIN v.props
  /\ v.props.keypoints.type = "array"
  /\ v.props.skeleton.type = "array"
  /\ v.props.width.type = "number"
  /\ v.props.height.type = "number"
  /\ \A i \in 1..Len(v.props.keypoints.items) :
       LET kp == v.props.keypoints.items[i]
       IN /\ kp.type = "object"
          /\ {"x", "y", "confidence", "label"} \subseteq DOMAIN kp.props
          /\ kp.props.x.type = "number"
          /\ kp.props.y.type = "number"
          /\ kp.props.confidence.type = "number"
          /\ kp.props.label.type = "string"

\* C12: validatePoseData returns the boolean true exactly on the values that
\* have the shape of a PoseData, and the boolean false, without throwing, on
\* every other value.
C12_ValidatorReturnsBoolean ==
  (op = "validatePoseData") =>
    result = Ok([type |-> "boolean", flag |-> C12_WellFormed(args.poseData)])

\* C13: scalePose signals an error, and returns no pose, when the source
\* width or height is 0.
C13_ScaleRejectsZeroDimension ==
  (/\ op = "scalePose"
   /\ (args.poseData.width = 0 \/ args.poseData.height = 0))
    => result.status # "ok"

\* C14: for a PoseData P with positive width and height and any target
\* (newWidth, newHeight), scalePose(P, newWidth, newHeight) has width =
\* newWidth, height = newHeight, as many keypoints as P, and at every position
\* i x = P.keypoints[i].x * (newWidth / P.width) and y = P.keypoints[i].y *
\* (newHeight / P.height).
C14_ScaleMultipliesByRatio ==
  (/\ op = "scalePose"
   /\ fgt(args.poseData.width, 0)
   /\ fgt(args.poseData.height, 0))
    => /\ result.status = "ok"
       /\ result.value.width = args.newWidth
       /\ result.value.height = args.newHeight
       /\ Len(result.value.keypoints) = Len(args.poseData.keypoints)
       /\ \A i \in 1..Len(args.poseData.keypoints) :
            /\ result.value.keypoints[i].x
                 = fmul(args.poseData.keypoints[i].x,
                        fdiv(args.newWidth, args.poseData.width))
            /\ result.value.keypoints[i].y
                 = fmul(args.poseData.keypoints[i].y,
                        fdiv(args.newHeight, args.poseData.height))

\* a 17-point pose in a 768 x 768 frame scaled to 1024 x 768: x moves by 4/3,
\* y stays
C14_Witness ==
  /\ op = "scalePose"
  /\ Len(args.poseData.keypoints) = 17
  /\ args.poseData.width = Lit(768, 1)
  /\ args.poseData.height = Lit(768, 1)
  /\ args.newWidth = Lit(1024, 1)
  /\ args.newHeight = Lit(768, 1)
  /\ args.poseData.keypoints[2].x = Lit(1005, 10)
  /\ result.value.keypoints[2].x = Lit(134, 1)
  /\ result.value.keypoints[2].y = args.poseData.keypoints[2].y

\* a is b up to the rounding of a few operations: both are finite and differ
\* by at most eight rounding errors of b (2^-Prec of b each) plus the
\* smallest positive number
C15_Close(a, b) ==
  /\ IsNum(a) /\ IsNum(b)
  /\ Abs(a - b) * 2^(Prec - 3) <= Abs(b) + 2^(Prec - 3)

\* C15: for a PoseData P with positive dimensions (w, h) and a positive
\* target (w2, h2), scalePose(scalePose(P, w2, h2), w, h) has the width and
\* height of P, as many keypoints, and at every position the x and y of P up
\* to rounding.
C15_ScaleInverse ==
  (/\ op = "scalePose(scalePose)"
   /\ fgt(args.poseData.width, 0) /\ fgt(args.poseData.height, 0)
   /\ fgt(args.newWidth, 0) /\ fgt(args.newHeight, 0))
    => /\ result.status = "ok"
       /\ result.value.width = args.poseData.width
       /\ result.value.height = args.poseData.height
       /\ Len(result.value.keypoints) = Len(args.poseData.keypoints)
       /\ \A i \in 1..Len(args.poseData.keypoints) :
            /\ C15_Close(result.value.keypoints[i].x,
                         args.poseData.keypoints[i].x)
            /\ C15_Close(result.value.keypoints[i].y,
                         args.poseData.keypoints[i].y)

\* a 17-point pose scaled from 384 x 512 to 1024 x 768 and back: some
\* coordinate comes back rounded, not exact
C15_Witness ==
  /\ op = "scalePose(scalePose)"
  /\ Len(args.poseData.keypoints) = 17
  /\ args.poseData.width = Lit(384, 1)
  /\ args.newWidth = Lit(1024, 1)
  /\ result.value.width = Lit(384, 1)
  /\ \E i \in 1..17 :
       result.value.keypoints[i].x # args.poseData.keypoints[i].x

\* a is b up to the rounding of the operations of two rotations: the two
\* differ by at most sixteen rounding errors (2^-Prec each) of size, the sum
\* of the magnitudes of the frame and of the source coordinates
C16_Close(a, b, size) ==
  /\ IsNum(a) /\ IsNum(b)
  /\ Abs(a - b) * 2^(Prec - 4) <= size

\* the keypoints of twice are those of once up to rounding, for the source P
C16_SameKeypoints(P, twice, once) ==
  /\ Len(twice.keypoints) = Len(once.keypoints)
  /\ \A i \in 1..Len(P.keypoints) :
       /\ C16_Close(twice.keypoints[i].x, once.keypoints[i].x,
                    Abs(P.width) + Abs(P.height)
                      + Abs(P.keypoints[i].x) + Abs(P.keypoints[i].y))
       /\ C16_Close(twice.keypoints[i].y, once.keypoints[i].y,
                    Abs(P.width) + Abs(P.height)
                      + Abs(P.keypoints[i].x) + Abs(P.keypoints[i].y))

\* C16: for a PoseData P and angles a and b, rotatePose(rotatePose(P, a), b)
\* has the keypoint coordinates of rotatePose(P, a + b) up to rounding, and
\* the width and height of P (the centre of both rotations).
C16_RotationComposes ==
  (op = "rotatePose(rotatePose)") =>
    /\ result.status = "ok"
    /\ result.value.width = args.poseData.width
    /\ result.value.height = args.poseData.height
    /\ C16_SameKeypoints(args.poseData, result.value,
                         rotatePose(args.poseData,
                                    fadd(args.angle, args.second)).value)

\* a 17-point pose rotated by 15 and then by 90 degrees: the result is not
\* the source, and not exactly the pose rotated by 105 degrees
C16_Witness ==
  /\ op = "rotatePose(rotatePose)"
  /\ Len(args.poseData.keypoints) = 17
  /\ args.poseData.width = Lit(768, 1)
  /\ args.angle = Lit(15, 1)
  /\ args.second = Lit(90, 1)
  /\ result.value.keypoints[1].y # args.poseData.keypoints[1].y
  /\ \E i \in 1..17 :
       result.value.keypoints[i].x
         # rotatePose(args.poseData, Lit(105, 1)).value.keypoints[i].x

\* every index of every pair of the skeleton is a position of keypoints
C17_SkeletonIsValid(poseData) ==
  \A k \in 1..Len(poseData.skeleton) :
     \A e \in 1..2 :
        /\ poseData.skeleton[k][e] >= 0
        /\ poseData.skeleton[k][e] < Len(poseData.keypoints)

C17_Transforms == {"mirrorPose", "scalePose", "rotatePose", "transformPose"}

C20_SameConfidenceAndLabel(source, derived) ==
  /\ Len(derived.keypoints) = Len(source.keypoints)
  /\ \A i \in 1..Len(source.keypoints) :
       /\ derived.keypoints[i].confidence = source.keypoints[i].confidence
       /\ derived.keypoints[i].label = source.keypoints[i].label

\* C20: the skeleton of the result equals the source skeleton for mirrorPose,
\* scalePose and rotatePose; width and height are unchanged by mirrorPose
\* and rotatePose; scalePose and rotatePose leave the confidence and the
\* label at every keypoint position unchanged.
C20_TransformFrame ==
  (op \in {"mirrorPose", "scalePose", "rotatePose"} /\ result.status = "ok") =>
    /\ result.value.skeleton = args.poseData.skeleton
    /\ (op \in {"mirrorPose", "rotatePose"}) =>
         /\ result.value.width = args.poseData.width
         /\ result.value.height = args.poseData.height
    /\ (op \in {"scalePose", "rotatePose"}) =>
         C20_SameConfidenceAndLabel(args.poseData, result.value)

\* a 17-point pose in a 384x512 frame rotated by 15 degrees: coordinates
\* move, the 16 bones and the frame stay
C20_Witness ==
  /\ op = "rotatePose"
  /\ Len(args.poseData.keypoints) = 17
  /\ Len(args.poseData.skeleton) = 16
  /\ args.poseData.width = Lit(384, 1)
  /\ args.poseData.height = Lit(512, 1)
  /\ args.angle = Lit(15, 1)
  /\ result.status = "ok"
  /\ \E i \in 1..17 :
       /\ result.value.keypoints[i].x # args.poseData.keypoints[i].x
       /\ result.value.keypoints[i].y # args.poseData.keypoints[i].y

\* the references of the poses handed to the call in memory
C18_Inputs ==
  IF op = "calculatePoseSimilarity in memory"
    THEN {args.pose1, args.pose2}
  ELSE IF op = "findSimilarPoses in memory"
    THEN {args.targetPose} \cup {args.heap[args.poses][k] : k \in 1..2}
  ELSE {args.poseData}

C18_InMemory ==
  {"mirrorPose in memory", "scalePose in memory", "rotatePose in memory",
   "transformPose in memory", "calculatePoseSimilarity in memory",
   "findSimilarPoses in memory", "generatePoseVariations in memory",
   "toPoseOpenPoseFormat in memory"}

\* C18: after a call to mirrorPose, scalePose, rotatePose, transformPose,
\* calculatePoseSimilarity, findSimilarPoses, generatePoseVariations or
\* toPoseOpenPoseFormat, the keypoints (every field at every position), the
\* skeleton, the width and the height of every input pose are what they
\* were before the call; so is every other object that existed before it.
C18_InputsNotMutated ==
  (op \in C18_InMemory) =>
    /\ \A poseData \in C18_Inputs :
         LoadPose(result.heap, poseData) = LoadPose(args.heap, poseData)
    /\ Len(result.heap) >= Len(args.heap)
    /\ \A a \in 1..Len(args.heap) : result.heap[a] = args.heap[a]

\* transformPose mirrors, scales and rotates a 17-point pose: the returned
\* pose differs from the source and was built in new memory
C18_Witness ==
  /\ op = "transformPose in memory"
  /\ MirrorRequested(args.transformations)
  /\ ScaleRequested(args.transformations)
  /\ RotationRequested(args.transformations)
  /\ result.status = "ok"
  /\ Len(LoadPose(args.heap, args.poseData).keypoints) = 17
  /\ Len(result.heap) > Len(args.heap) + 3 * 17
  /\ LoadPose(result.heap, result.value).keypoints[1]
       # LoadPose(args.heap, args.poseData).keypoints[1]

\* the arrays and keypoint objects reachable from the pose object at the
\* reference poseData: its keypoints array and the keypoint objects in it,
\* its skeleton array and the bones in it
C19_Reachable(heap, poseData) ==
  LET object == heap[poseData]
  IN {object.keypoints, object.skeleton}
       \cup {heap[object.keypoints][k] : k \in 1..Len(heap[object.keypoints])}
       \cup {heap[object.skeleton][k] : k \in 1..Len(heap[object.skeleton])}

\* the pose objects a call returned: the result of a transform, or the
\* poseData of every entry of generatePoseVariations
C19_Derived ==
  IF op = "generatePoseVariations in memory"
    THEN {result.heap[result.heap[result.value][k]].poseData : k \in 1..6}
    ELSE {result.value}

\* C19: no array or keypoint object reachable from the result of mirrorPose,
\* scalePose, rotatePose or transformPose (for any configuration), or from
\* an entry of generatePoseVariations, is an object reachable from the
\* source pose.
C19_ResultsIndependentlyOwned ==
  (/\ op \in {"mirrorPose in memory", "scalePose in memory",
              "rotatePose in memory", "transformPose in memory",
              "generatePoseVariations in memory"}
   /\ result.status = "ok") =>
    \A derived \in C19_Derived :
       C19_Reachable(result.heap, derived)
         \cap C19_Reachable(args.heap, args.poseData) = {}

\* C21 as stated: mirrorPose(P).keypoints[i].confidence equals
\* P.keypoints[i].confidence for every PoseData P and every position i.
C21_MirrorKeepsConfidence ==
  (op = "mirrorPose" /\ result.status = "ok") =>
    \A i \in 1..Len(args.poseData.keypoints) :
       result.value.keypoints[i].confidence
         = args.poseData.keypoints[i].confidence

\* C21: whenever mirrorPose returns for P, the confidence at position i of
\* the result is the confidence of P's keypoint at the mirror partner of i
\* (at i itself where i has no partner): the confidence travels with the
\* coordinates, only the label stays with the slot.
C21_MirrorTakesPartnerConfidence ==
  (op = "mirrorPose" /\ result.status = "ok") =>
    \A i \in 0..(Len(args.poseData.keypoints) - 1) :
       LET j == IF i \in DOMAIN MIRROR_MAPPING THEN MIRROR_MAPPING[i] ELSE i
       IN result.value.keypoints[i + 1].confidence
            = args.poseData.keypoints[j + 1].confidence

\* a 17-point pose whose left eye (0.75) and right eye (0.5) differ in
\* confidence: after the mirror each slot holds the other's
C21_Witness ==
  /\ op = "mirrorPose"
  /\ result.status = "ok"
  /\ Len(args.poseData.keypoints) = 17
  /\ args.poseData.keypoints[2].confidence = Lit(75, 100)
  /\ args.poseData.keypoints[3].confidence = Lit(5, 10)
  /\ result.value.keypoints[2].confidence = Lit(5, 10)
  /\ result.value.keypoints[3].confidence = Lit(75, 100)

\* C22: toPoseOpenPoseFormat(P) returns an envelope with version 1.3 and
\* exactly one person, whose pose_keypoints_2d has length
\* 3 * P.keypoints.length and holds x, y and confidence of keypoint k at the
\* indices 3k, 3k + 1 and 3k + 2, whose person_id is [-1] and whose face,
\* hand and 3D keypoint arrays are empty.
C22_OpenPoseEnvelope ==
  (op = "toPoseOpenPoseFormat") =>
    /\ result.status = "ok"
    /\ result.value.version = Lit(13, 10)
    /\ Len(result.value.people) = 1
    /\ LET person == result.value.people[1]
           keypoints == args.poseData.keypoints
       IN /\ Len(person.pose_keypoints_2d) = 3 * Len(keypoints)
          /\ \A k \in 0..(Len(keypoints) - 1) :
               /\ person.pose_keypoints_2d[3 * k + 1] = keypoints[k + 1].x
               /\ person.pose_keypoints_2d[3 * k + 2] = keypoints[k + 1].y
               /\ person.pose_keypoints_2d[3 * k + 3]
                    = keypoints[k + 1].confidence
          /\ person.person_id = << Lit(-1, 1) >>
          /\ \A f \in {"face_keypoints_2d", "hand_left_keypoints_2d",
                       "hand_right_keypoints_2d", "pose_keypoints_3d",
                       "face_keypoints_3d", "hand_left_keypoints_3d",
                       "hand_right_keypoints_3d"} : person[f] = <<>>
          /\ DOMAIN person
               = {"person_id", "pose_keypoints_2d", "face_keypoints_2d",
                  "hand_left_keypoints_2d", "hand_right_keypoints_2d",
                  "pose_keypoints_3d", "face_keypoints_3d",
                  "hand_left_keypoints_3d", "hand_right_keypoints_3d"}

\* a 17-point pose whose left eye is at (100.5, 88) with confidence 0.75:
\* the 51 values hold them at the indices 3, 4 and 5
C22_Witness ==
  /\ op = "toPoseOpenPoseFormat"
  /\ Len(args.poseData.keypoints) = 17
  /\ Len(result.value.people[1].pose_keypoints_2d) = 51
  /\ result.value.people[1].pose_keypoints_2d[4] = Lit(1005, 10)
  /\ result.value.people[1].pose_keypoints_2d[5] = Lit(88, 1)
  /\ result.value.people[1].pose_keypoints_2d[6] = Lit(75, 100)

\* C23: for poses P and Q of equal length, changing the x or the y of a
\* keypoint at an index where P's or Q's confidence is not above 0.5 (0.5
\* itself included) leaves calculatePoseSimilarity(P, Q) unchanged, as long
\* as at least one other index qualifies.
C23_LowConfidenceIgnored ==
  (/\ op = "calculatePoseSimilarity(moved)"
   /\ \/ ~fgt(args.pose1.keypoints[args.index + 1].confidence, Lit(5, 10))
      \/ ~fgt(args.pose2.keypoints[args.index + 1].confidence, Lit(5, 10))
   /\ args.before.compared >= 1) =>
    /\ result.value.ret = args.before.ret
    /\ result.value.compared = args.before.compared

\* the right eye of P has confidence exactly 0.5 and is moved away from
\* where Q has it, other keypoints qualify, and the frame has a diagonal
C23_Witness ==
  /\ op = "calculatePoseSimilarity(moved)"
  /\ args.index = 2
  /\ args.pose1.keypoints[3].confidence = Lit(5, 10)
  /\ fgt(args.pose2.keypoints[3].confidence, Lit(5, 10))
  /\ args.moved1.keypoints[3].x # args.pose1.keypoints[3].x
  /\ args.moved1.keypoints[3].x # args.pose2.keypoints[3].x
  /\ args.before.compared >= 1
  /\ args.pose1.width = Lit(768, 1)
  /\ IsNum(result.value.ret)
  /\ result.value.ret = args.before.ret

\* C24: every value for which validatePoseData returns true can be passed
\* to mirrorPose and to generatePoseVariations without a runtime error.
C24_ValidatedValuesTransform ==
  (op \in {"mirrorPose(validated)", "generatePoseVariations(validated)"}) =>
    result.status = "ok"

====
